---- MODULE Spec2Model ----
(***************************************************************************)
(* The in-memory library-resolution cache of libdocs-mcp:                  *)
(*   - LibraryCacheStore (TTL + capacity store behind a promise Mutex),    *)
(*     src/src/mastra/cache/library-cache-store.ts                         *)
(*   - BaseCacheRepository and its two subclasses (alias repository),      *)
(*     src/src/mastra/cache/library-cache-repository.ts                    *)
(* Strings are sequences of one-character strings so that trim() and       *)
(* toLowerCase() are computed, not assumed.                                *)
(***************************************************************************)
EXTENDS Integers, Sequences, FiniteSets, TLC

VARIABLES
    sut,          \* what a behaviour exercises: "store", "recency" (the store with its
                  \* call history), "shared" (the store with callers' references),
                  \* "context7", "deepwiki" (a repository), "mutex", "concurrent",
                  \* "memory" (the working-memory schema)
    entries,      \* LibraryCacheStore.entries: Map in insertion order, a sequence of <<key, entry>>
    aliasIndex,   \* LibraryCacheStore.aliasIndex: Map alias key -> entry key
    clock,        \* the wall clock that Date.now() samples
    accessed,     \* history, kept when sut = "recency": stored keys, least recently upserted/got first
    evicted,      \* history: keys that enforceCapacity removed in the last call
    expired,      \* history: keys that pruneExpired removed in the last call
    held,         \* kept when sut = "shared": the references into the store's objects that
                  \* callers hold, <<key, "entry">> the stored object, <<key, "aliases">> its array
    repoEntries,  \* BaseCacheRepository.entries: Map key -> entry (never iterated)
    order,        \* BaseCacheRepository.order: keys in insertion order
    maxEntries,   \* BaseCacheRepository.maxEntries, fixed at construction
    threw,        \* history: the last repository upsert threw a validation error
    mutex,        \* Mutex.mutex: 0 is the initial Promise.resolve(), i the promise call i made
    released,     \* the calls whose release() has run: their promises are fulfilled
    pc,           \* where each runExclusive call is
    call,         \* what each call was issued with: its callback
    previous,     \* the local `previous` of each call
    outcome,      \* how each call's callback settled
    microtasks,   \* the microtask queue: <<call, continuation>> jobs, first in first out
    results,      \* history: <<>> or <<[now, value]>>, what each store call read and returned
    messages,     \* the message list that processInput is given, changed in place
    original,     \* history: the message list before any processInput
    repositoryCache,  \* the repositoryCache array handed to the working-memory schema
    parsedCache   \* <<>> before the schema has parsed it, <<list>> what the parse returned

repoVars == <<repoEntries, order, maxEntries, threw>>

mutexVars == <<mutex, released, pc, call, previous, outcome, microtasks, results>>

injectorVars == <<messages, original>>

memoryVars == <<repositoryCache, parsedCache>>

----------------------------------------------------------------------------
(* Bounds of the model. *)

\* Stands for CACHE_MAX_ENTRIES = 50 (library-cache-store.ts:1), scaled down.
CACHE_MAX_ENTRIES == 2
\* Stands for DEFAULT_CACHE_INJECTION_LIMIT = 20 (library-cache-store.ts:211),
\* scaled down and, as there, below CACHE_MAX_ENTRIES.
DEFAULT_CACHE_INJECTION_LIMIT == 1
\* Stands for the 10 of .slice(0, 10) in repositoryCacheSchema, scaled down.
REPOSITORY_CACHE_LIMIT == 2
\* repositoryCache arrays have up to MaxCacheLen entries.
MaxCacheLen == 4
\* Stands for CACHE_TTL_MS = 12 h in ms (library-cache-store.ts:2), scaled down to clock ticks.
CACHE_TTL_MS == 1
\* Date.now() is sampled in 0..MaxClock.
MaxClock == 2
\* getSnapshot limits are drawn from 0..MaxLimit.
MaxLimit == 1
\* A repository is constructed with maxEntries in 1..MaxRepoEntries.
MaxRepoEntries == 2
\* A caller pushes onto an aliases array while it has fewer than MaxAliases elements.
MaxAliases == 2
\* At most MaxCalls runExclusive calls are issued in a behaviour.
MaxCalls == 3

----------------------------------------------------------------------------
(* Strings. *)

LowerChar(c) ==
    CASE c = "A" -> "a"
      [] c = "B" -> "b"
      [] c = "C" -> "c"
      [] c = "X" -> "x"
      [] OTHER -> c

toLowerCase(s) == [i \in 1..Len(s) |-> LowerChar(s[i])]

RECURSIVE trimStart(_)
trimStart(s) == IF s # <<>> /\ Head(s) = " " THEN trimStart(Tail(s)) ELSE s

RECURSIVE trimEnd(_)
trimEnd(s) == IF s # <<>> /\ s[Len(s)] = " " THEN trimEnd(SubSeq(s, 1, Len(s) - 1)) ELSE s

trim(s) == trimEnd(trimStart(s))

normalizeKey(term) == toLowerCase(trim(term))

----------------------------------------------------------------------------
(* JavaScript Map in insertion order: a sequence of <<key, value>> pairs. *)

MapKeys(m) == {m[i][1] : i \in 1..Len(m)}

MapHas(m, k) == k \in MapKeys(m)

MapIndex(m, k) == CHOOSE i \in 1..Len(m) : m[i][1] = k

MapGet(m, k) == m[MapIndex(m, k)][2]

\* Map.set: an existing key keeps its position, a new key goes last.
MapSet(m, k, v) ==
    IF MapHas(m, k)
    THEN [i \in 1..Len(m) |-> IF m[i][1] = k THEN <<k, v>> ELSE m[i]]
    ELSE Append(m, <<k, v>>)

MapDelete(m, k) == SelectSeq(m, LAMBDA p : p[1] # k)

MapValues(m) == [i \in 1..Len(m) |-> m[i][2]]

\* A Map whose order is never observed: a function.
NoAliases == [x \in {} |-> <<>>]

FnSet(f, k, v) == [x \in DOMAIN f \cup {k} |-> IF x = k THEN v ELSE f[x]]

FnDelete(f, k) == [x \in DOMAIN f \ {k} |-> f[x]]

----------------------------------------------------------------------------
(* Sorting: Array.prototype.sort is stable, so among elements the comparator
   calls equal the earlier one stays first. keys[i] is what the comparator
   subtracts for seq[i]. *)

\* the place of each element after the sort
sortedRanks(keys) ==
    [i \in 1..Len(keys) |->
        Cardinality({j \in 1..Len(keys) :
                        \/ keys[j] < keys[i]
                        \/ (keys[j] = keys[i] /\ j < i)}) + 1]

placeByRank(seq, ranks) ==
    [p \in 1..Len(seq) |-> seq[CHOOSE i \in 1..Len(seq) : ranks[i] = p]]

StableSort(seq, keys) == placeByRank(seq, sortedRanks(keys))

Min(a, b) == IF a <= b THEN a ELSE b

----------------------------------------------------------------------------
(* LibraryCacheStore: the synchronous bodies of its operations. A store state
   st is [entries, aliasIndex]. *)

StoreState(e, a) == [entries |-> e, aliasIndex |-> a]

\* entry.aliases is set (an empty array is truthy)
HasAliases(entry) == "aliases" \in DOMAIN entry

RECURSIVE registerAliases(_, _, _)
registerAliases(aliases, key, index) ==
    IF aliases = <<>> THEN index
    ELSE registerAliases(Tail(aliases), key, FnSet(index, normalizeKey(Head(aliases)), key))

registerAliasIndex(entry, key, index) ==
    IF ~HasAliases(entry) THEN index ELSE registerAliases(entry.aliases, key, index)

RECURSIVE removeAliases(_, _, _)
removeAliases(aliases, key, index) ==
    IF aliases = <<>> THEN index
    ELSE LET aliasKey == normalizeKey(Head(aliases))
             mapped == aliasKey \in DOMAIN index /\ index[aliasKey] = key
         IN  removeAliases(Tail(aliases), key,
                           IF mapped THEN FnDelete(index, aliasKey) ELSE index)

removeAliasIndex(entry, key, index) ==
    IF ~HasAliases(entry) THEN index ELSE removeAliases(entry.aliases, key, index)

\* as removeEntry, but the aliases of the removed entry stay indexed
removeEntryKeepAliases(st, key) ==
    IF ~MapHas(st.entries, key) THEN st
    ELSE StoreState(MapDelete(st.entries, key), st.aliasIndex)


removeEntry(st, key) ==
    IF ~MapHas(st.entries, key) THEN st
    ELSE StoreState(MapDelete(st.entries, key),
                    removeAliasIndex(MapGet(st.entries, key), key, st.aliasIndex))

\* as isExpired, but counted from the last access (a sliding TTL)
isExpiredSinceAccess(entry, now) == now - entry.lastAccessedAt > CACHE_TTL_MS


isExpired(entry, now) == now - entry.updatedAt > CACHE_TTL_MS

\* for (const [key, entry] of this.entries) over the entries as they were
RECURSIVE pruneLoop(_, _, _)
pruneLoop(pairs, st, now) ==
    IF pairs = <<>> THEN st
    ELSE pruneLoop(Tail(pairs),
                   IF isExpired(Head(pairs)[2], now) THEN removeEntry(st, Head(pairs)[1]) ELSE st,
                   now)

pruneExpired(st, now) == pruneLoop(st.entries, st, now)

lastAccessedOf(pairs) == [i \in 1..Len(pairs) |-> pairs[i][2].lastAccessedAt]

updatedOf(pairs) == [i \in 1..Len(pairs) |-> pairs[i][2].updatedAt]

RECURSIVE evictLoop(_, _)
evictLoop(entriesArray, st) ==
    IF entriesArray # <<>> /\ Len(st.entries) > CACHE_MAX_ENTRIES
    THEN evictLoop(Tail(entriesArray), removeEntry(st, Head(entriesArray)[1]))
    ELSE st

\* as enforceCapacity, but one entry too late
enforceCapacityLate(st) ==
    IF Len(st.entries) <= CACHE_MAX_ENTRIES + 1 THEN st
    ELSE evictLoop(StableSort(st.entries, lastAccessedOf(st.entries)), st)

\* as enforceCapacity, but ordered by updatedAt
enforceCapacityByUpdatedAt(st) ==
    IF Len(st.entries) <= CACHE_MAX_ENTRIES THEN st
    ELSE evictLoop(StableSort(st.entries, updatedOf(st.entries)), st)


enforceCapacity(st) ==
    IF Len(st.entries) <= CACHE_MAX_ENTRIES THEN st
    ELSE evictLoop(StableSort(st.entries, lastAccessedOf(st.entries)), st)

\* { ...entry, lastAccessedAt: now, updatedAt: now }
makeNextEntry(entry, now) ==
    [f \in DOMAIN entry \cup {"lastAccessedAt", "updatedAt"} |->
        IF f \in {"lastAccessedAt", "updatedAt"} THEN now ELSE entry[f]]

\* upsert after pruneExpired: drop the aliases of the entry stored under key,
\* set the entry, register its aliases
upsertPruned(pruned, key, nextEntry) ==
    StoreState(MapSet(pruned.entries, key, nextEntry),
               registerAliasIndex(nextEntry, key,
                   IF MapHas(pruned.entries, key)
                   THEN removeAliasIndex(MapGet(pruned.entries, key), key, pruned.aliasIndex)
                   ELSE pruned.aliasIndex))

\* as upsertWrite, but each kind has its own keys
upsertWritePerKind(st, entry, now) ==
    upsertPruned(pruneExpired(st, now), normalizeKey(entry.searchTerm) \o <<entry.kind>>,
                 makeNextEntry(entry, now))

\* upsert up to and including registerAliasIndex (before enforceCapacity)
upsertWrite(st, entry, now) ==
    upsertPruned(pruneExpired(st, now), normalizeKey(entry.searchTerm), makeNextEntry(entry, now))

\* the callback of upsert: the new state and the returned record
upsert(st, entry, now) ==
    [st |-> enforceCapacity(upsertWrite(st, entry, now)),
     value |-> makeNextEntry(entry, now)]

\* as resolveKey, but the alias index is asked first
resolveKeyAliasFirst(st, searchTermOrAlias) ==
    LET normalized == normalizeKey(searchTermOrAlias)
    IN  IF normalized \in DOMAIN st.aliasIndex THEN <<st.aliasIndex[normalized]>>
        ELSE IF MapHas(st.entries, normalized) THEN <<normalized>>
        ELSE <<>>


\* resolveKey: <<>> is undefined, <<k>> a key
resolveKey(st, searchTermOrAlias) ==
    LET normalized == normalizeKey(searchTermOrAlias)
    IN  IF MapHas(st.entries, normalized) THEN <<normalized>>
        ELSE IF normalized \in DOMAIN st.aliasIndex THEN <<st.aliasIndex[normalized]>>
        ELSE <<>>

\* as getTouched, but the hit renews updatedAt as well
getTouchedRenewed(pruned, key, entry) ==
    [st |-> StoreState(MapSet(pruned.entries, key,
                              [entry EXCEPT !.updatedAt = entry.lastAccessedAt]),
                       pruned.aliasIndex),
     value |-> <<entry>>]

\* entry.lastAccessedAt = now; return { ...entry }
getTouched(pruned, key, entry) ==
    [st |-> StoreState(MapSet(pruned.entries, key, entry), pruned.aliasIndex),
     value |-> <<entry>>]

\* get after resolveKey
getResolved(pruned, key, now) ==
    IF key = <<>> \/ ~MapHas(pruned.entries, key[1])
    THEN [st |-> pruned, value |-> <<>>]
    ELSE getTouched(pruned, key[1],
                    [MapGet(pruned.entries, key[1]) EXCEPT !.lastAccessedAt = now])

\* get after pruneExpired
getPruned(pruned, searchTermOrAlias, now) ==
    getResolved(pruned, resolveKey(pruned, searchTermOrAlias), now)

\* the callback of get: <<>> is undefined, <<e>> a copy of the entry
get(st, searchTermOrAlias, now) == getPruned(pruneExpired(st, now), searchTermOrAlias, now)

negUpdatedAt(list) == [i \in 1..Len(list) |-> 0 - list[i].updatedAt]

\* const { kind, lastAccessedAt, updatedAt, ...rest } = entry
stripBookkeeping(entry) ==
    [f \in DOMAIN entry \ {"kind", "lastAccessedAt", "updatedAt"} |-> entry[f]]

\* as sortByUpdatedAtDesc, but oldest first
sortByUpdatedAtAsc(filtered) ==
    StableSort(filtered, [i \in 1..Len(filtered) |-> filtered[i].updatedAt])

\* filtered.sort((a, b) => b.updatedAt - a.updatedAt)
sortByUpdatedAtDesc(filtered) == StableSort(filtered, negUpdatedAt(filtered))

\* filtered.slice(0, limit), for limit >= 0
sliceTo(sorted, limit) == SubSeq(sorted, 1, Min(limit, Len(sorted)))

stripAll(list) == [i \in 1..Len(list) |-> stripBookkeeping(list[i])]

\* the for loop that splits the slice into libraries and repositories
splitByKind(slice) ==
    [libraries |-> stripAll(SelectSeq(slice, LAMBDA entry : entry.kind = "context7")),
     repositories |-> stripAll(SelectSeq(slice, LAMBDA entry : entry.kind # "context7"))]

\* getSnapshot after pruneExpired
getSnapshotPruned(pruned, limit, kind) ==
    [st |-> pruned,
     value |-> splitByKind(sliceTo(sortByUpdatedAtDesc(
                   SelectSeq(MapValues(pruned.entries),
                             LAMBDA entry : kind = "all" \/ entry.kind = kind)), limit))]

\* the callback of getSnapshot, for limit >= 0
getSnapshot(st, limit, kind, now) == getSnapshotPruned(pruneExpired(st, now), limit, kind)

----------------------------------------------------------------------------
(* Inputs of the store operations. *)

CacheEntryInputs ==
    { [kind |-> "context7", searchTerm |-> <<"a">>, aliases |-> << <<"x">> >>,
       sourceType |-> "official", resolvedAt |-> "t1", libraryId |-> "/o/a", trustScore |-> 9],
      [kind |-> "context7", searchTerm |-> <<"A", " ">>,
       sourceType |-> "website", resolvedAt |-> "t2", libraryId |-> "/o/a"],
      [kind |-> "deepwiki", searchTerm |-> <<"b">>, aliases |-> << <<" ", "X">> >>,
       sourceType |-> "official", resolvedAt |-> "t1", repository |-> "o/b"],
      [kind |-> "context7", searchTerm |-> <<"c">>, aliases |-> << <<"b">> >>,
       sourceType |-> "official", resolvedAt |-> "t1", libraryId |-> "/o/c"],
      [kind |-> "deepwiki", searchTerm |-> <<"x">>, aliases |-> << >>,
       sourceType |-> "mirror", resolvedAt |-> "t2", repository |-> "o/b"] }

\* records of both kinds under search terms that normalize to the same key
CrossKindInputs ==
    { [kind |-> "context7", searchTerm |-> <<"a">>, aliases |-> << <<"x">> >>,
       sourceType |-> "official", resolvedAt |-> "t1", libraryId |-> "/o/a"],
      [kind |-> "deepwiki", searchTerm |-> <<"A", " ">>,
       sourceType |-> "mirror", resolvedAt |-> "t2", repository |-> "o/a"],
      [kind |-> "deepwiki", searchTerm |-> <<"b">>, aliases |-> << <<"a">> >>,
       sourceType |-> "official", resolvedAt |-> "t1", repository |-> "o/b"],
      [kind |-> "context7", searchTerm |-> <<" ", "B">>,
       sourceType |-> "website", resolvedAt |-> "t2", libraryId |-> "/o/b"] }

LookupTerms == { <<"A", " ">>, <<"b">>, <<"c">>, <<" ", "X">> }

SnapshotKinds == {"all", "context7", "deepwiki"}

----------------------------------------------------------------------------------------------------------------------------------------------------------------------------------------------------------------
(* The zod schemas of the repository entries (schema.ts). A parse result is
   <<>> when zod throws and <<entry>> otherwise. *)

IsoDatetimes == {"2025-01-01T00:00:00Z", "2025-06-01T00:00:00Z"}

\* new Date().toISOString(), the default of resolvedAt
nowIso == "now"

\* z.string().trim().min(1) on every element, then .min(1) on the array
namesValid(values) ==
    /\ \A i \in 1..Len(values) : Len(trim(values[i])) >= 1
    /\ Len(values) >= 1

\* the .transform of namesSchema: drop later names equal ignoring case,
\* the kept ones preserve their casing
RECURSIVE uniqueNames(_, _, _)
uniqueNames(values, unique, seenLower) ==
    IF values = <<>> THEN unique
    ELSE LET key == toLowerCase(Head(values))
         IN  IF key \in seenLower
             THEN uniqueNames(Tail(values), unique, seenLower)
             ELSE uniqueNames(Tail(values), Append(unique, Head(values)), seenLower \cup {key})

namesSchema(values) ==
    uniqueNames([i \in 1..Len(values) |-> trim(values[i])], <<>>, {})

identifierField(kind) == IF kind = "context7" THEN "libraryId" ELSE "repository"

sourceTypes(kind) ==
    IF kind = "context7" THEN {"official", "llmstxt", "website"} ELSE {"official", "mirror"}

\* the keys of the parsed object: optional keys only when given, resolvedAt always
parsedFields(kind, input) ==
    {"names", identifierField(kind), "sourceType", "resolvedAt"}
        \cup (IF kind = "context7" THEN DOMAIN input \cap {"trustScore", "snippetCount"} ELSE {})

schemaValid(kind, input) ==
    /\ {"names", identifierField(kind), "sourceType"} \subseteq DOMAIN input
    /\ namesValid(input.names)
    /\ Len(trim(input[identifierField(kind)])) >= 1
    /\ input.sourceType \in sourceTypes(kind)
    /\ (kind = "context7" /\ "trustScore" \in DOMAIN input)
           => (input.trustScore >= 0 /\ input.trustScore <= 100)
    /\ (kind = "context7" /\ "snippetCount" \in DOMAIN input)
           => (input.snippetCount % 10 = 0 /\ input.snippetCount >= 0)
    /\ "resolvedAt" \in DOMAIN input => input.resolvedAt \in IsoDatetimes

\* as parseInput, but only the names are validated
parseInputNamesOnly(kind, input) ==
    IF ~namesValid(input.names) THEN <<>>
    ELSE << [f \in parsedFields(kind, input) |->
                IF f = "names" THEN namesSchema(input.names)
                ELSE IF f = identifierField(kind) THEN trim(input[f])
                ELSE IF f = "resolvedAt" /\ f \notin DOMAIN input THEN nowIso
                ELSE input[f]] >>

parseInput(kind, input) ==
    IF ~schemaValid(kind, input) THEN <<>>
    ELSE << [f \in parsedFields(kind, input) |->
                IF f = "names" THEN namesSchema(input.names)
                ELSE IF f = identifierField(kind) THEN trim(input[f])
                ELSE IF f = "resolvedAt" /\ f \notin DOMAIN input THEN nowIso
                ELSE input[f]] >>

----------------------------------------------------------------------------
(* BaseCacheRepository and its subclasses. A repository state rs is
   [entries, order]; kind selects Context7CacheRepository or
   DeepWikiCacheRepository. *)

RepoState(e, o) == [entries |-> e, order |-> o]

NoEntries == [k \in {} |-> <<>>]

targetIdentifier(kind, entry) == entry[identifierField(kind)]

names_intersect(existing, candidate) ==
    \E i \in 1..Len(existing.names) :
        \E j \in 1..Len(candidate.names) : existing.names[i] = candidate.names[j]

\* the override of both subclasses: same identifier, else BaseCacheRepository.isSameResource
isSameResource(kind, existing, candidate) ==
    IF targetIdentifier(kind, existing) = targetIdentifier(kind, candidate) THEN TRUE
    ELSE names_intersect(existing, candidate)

\* a resolveExistingKey that returns the match reached last
resolveExistingKeyLast(rs, kind, canonical, entry) ==
    IF canonical \in DOMAIN rs.entries THEN <<canonical>>
    ELSE LET hits == {i \in 1..Len(rs.order) :
                        /\ rs.order[i] \in DOMAIN rs.entries
                        /\ isSameResource(kind, rs.entries[rs.order[i]], entry)}
         IN  IF hits = {} THEN <<>>
             ELSE <<rs.order[CHOOSE i \in hits : \A j \in hits : i >= j]>>

\* <<>> is null, <<k>> a key
resolveExistingKey(rs, kind, canonical, entry) ==
    IF canonical \in DOMAIN rs.entries THEN <<canonical>>
    ELSE LET hits == {i \in 1..Len(rs.order) :
                        /\ rs.order[i] \in DOMAIN rs.entries
                        /\ isSameResource(kind, rs.entries[rs.order[i]], entry)}
         IN  IF hits = {} THEN <<>>
             ELSE <<rs.order[CHOOSE i \in hits : \A j \in hits : i <= j]>>

\* a removeKey that leaves order as it is
removeKeyKept(ord, key) == ord

\* order.splice(order.indexOf(key), 1): the first occurrence only
removeKey(ord, key) ==
    IF \E i \in 1..Len(ord) : ord[i] = key
    THEN LET index == CHOOSE i \in 1..Len(ord) : ord[i] = key /\ \A j \in 1..(i - 1) : ord[j] # key
         IN  SubSeq(ord, 1, index - 1) \o SubSeq(ord, index + 1, Len(ord))
    ELSE ord

RECURSIVE repoEnforceCapacity(_, _)
repoEnforceCapacity(rs, max) ==
    IF Len(rs.order) > max
    THEN LET key == Head(rs.order)
             shifted == Tail(rs.order)
         IN  IF key = <<>> THEN RepoState(rs.entries, shifted)
             ELSE IF key \notin DOMAIN rs.entries THEN repoEnforceCapacity(RepoState(rs.entries, shifted), max)
             ELSE repoEnforceCapacity(RepoState(FnDelete(rs.entries, key), shifted), max)
    ELSE rs

\* an upsert that moves an updated key to the end of order, as an insert does
repoUpsertParsedMoved(rs, kind, parsed, max) ==
    LET canonical == parsed.names[1]
        existingKey == resolveExistingKey(rs, kind, canonical, parsed)
        dropped == IF existingKey # <<>>
                   THEN RepoState(FnDelete(rs.entries, existingKey[1]), removeKey(rs.order, existingKey[1]))
                   ELSE rs
        written == FnSet(dropped.entries, canonical, parsed)
    IN  repoEnforceCapacity(RepoState(written, Append(dropped.order, canonical)), max)

\* upsert of an input that parsed: the new repository state
repoUpsertParsed(rs, kind, parsed, max) ==
    LET canonical == parsed.names[1]
        existingKey == resolveExistingKey(rs, kind, canonical, parsed)
        dropped == IF existingKey # <<>> /\ existingKey[1] # canonical
                   THEN RepoState(FnDelete(rs.entries, existingKey[1]), removeKey(rs.order, existingKey[1]))
                   ELSE rs
        hadCanonical == canonical \in DOMAIN dropped.entries
        written == FnSet(dropped.entries, canonical, parsed)
    IN  IF ~hadCanonical
        THEN repoEnforceCapacity(RepoState(written, Append(dropped.order, canonical)), max)
        ELSE RepoState(written, dropped.order)

size(rs) == Cardinality(DOMAIN rs.entries)

getAll(rs) ==
    LET present == SelectSeq(rs.order, LAMBDA key : key \in DOMAIN rs.entries)
    IN  [i \in 1..Len(present) |-> rs.entries[present[i]]]

\* <<>> is undefined, <<e>> a copy of the entry
getByName(rs, name) ==
    LET normalized == toLowerCase(trim(name))
        hits == {i \in 1..Len(rs.order) :
                    /\ rs.order[i] \in DOMAIN rs.entries
                    /\ \E j \in 1..Len(rs.entries[rs.order[i]].names) :
                           rs.entries[rs.order[i]].names[j] = normalized}
    IN  IF hits = {} THEN <<>>
        ELSE <<rs.entries[rs.order[CHOOSE i \in hits : \A j \in hits : i <= j]]>>

----------------------------------------------------------------------------
(* Inputs of the repository operations. *)

\* z.number() values are written in tenths: 95 is 9.5, 30 is 3, 15 is 1.5
Context7Valid ==
    { [names |-> << <<"a">>, <<"x">> >>, libraryId |-> <<"1">>, sourceType |-> "official",
       trustScore |-> 95, resolvedAt |-> "2025-01-01T00:00:00Z"],
      [names |-> << <<"a">> >>, libraryId |-> <<"1">>, sourceType |-> "official",
       trustScore |-> 98, resolvedAt |-> "2025-06-01T00:00:00Z"],
      [names |-> << <<"b">>, <<" ", "X">> >>, libraryId |-> <<"1", " ">>, sourceType |-> "website"],
      [names |-> << <<"b">> >>, libraryId |-> <<"2">>, sourceType |-> "llmstxt", snippetCount |-> 30],
      [names |-> << <<"A", " ">>, <<"a">> >>, libraryId |-> <<"3">>, sourceType |-> "official"],
      [names |-> << <<"c">>, <<"x">>, <<"b">> >>, libraryId |-> <<"3">>, sourceType |-> "official"] }

\* no name, an empty name, an empty identifier, a sourceType of the other
\* variant, trustScore 10.1, snippetCount -1 and 1.5, a malformed resolvedAt
Context7Invalid ==
    { [names |-> << >>, libraryId |-> <<"1">>, sourceType |-> "official"],
      [names |-> << <<" ">> >>, libraryId |-> <<"1">>, sourceType |-> "official"],
      [names |-> << <<"c">> >>, libraryId |-> <<" ">>, sourceType |-> "official"],
      [names |-> << <<"c">> >>, libraryId |-> <<"2">>, sourceType |-> "mirror"],
      [names |-> << <<"c">> >>, libraryId |-> <<"2">>, sourceType |-> "official", trustScore |-> 101],
      [names |-> << <<"c">> >>, libraryId |-> <<"2">>, sourceType |-> "official", snippetCount |-> 0 - 10],
      [names |-> << <<"c">> >>, libraryId |-> <<"2">>, sourceType |-> "official", snippetCount |-> 15],
      [names |-> << <<"c">> >>, libraryId |-> <<"2">>, sourceType |-> "official", resolvedAt |-> "yesterday"] }

Context7Inputs == Context7Valid \cup Context7Invalid

DeepWikiValid ==
    { [names |-> << <<"a">>, <<"x">> >>, repository |-> <<"1">>, sourceType |-> "official",
       resolvedAt |-> "2025-01-01T00:00:00Z"],
      [names |-> << <<"a">> >>, repository |-> <<"1">>, sourceType |-> "mirror",
       resolvedAt |-> "2025-06-01T00:00:00Z"],
      [names |-> << <<"b">>, <<" ", "X">> >>, repository |-> <<"1", " ">>, sourceType |-> "official"],
      [names |-> << <<"b">> >>, repository |-> <<"2">>, sourceType |-> "mirror"],
      [names |-> << <<"A", " ">>, <<"a">> >>, repository |-> <<"3">>, sourceType |-> "official"],
      [names |-> << <<"c">>, <<"x">>, <<"b">> >>, repository |-> <<"3">>, sourceType |-> "official"] }

\* no name, an empty name, an empty identifier, a sourceType of the other
\* variant, a malformed resolvedAt
DeepWikiInvalid ==
    { [names |-> << >>, repository |-> <<"1">>, sourceType |-> "official"],
      [names |-> << <<" ">> >>, repository |-> <<"1">>, sourceType |-> "official"],
      [names |-> << <<"c">> >>, repository |-> <<" ">>, sourceType |-> "official"],
      [names |-> << <<"c">> >>, repository |-> <<"2">>, sourceType |-> "website"],
      [names |-> << <<"c">> >>, repository |-> <<"2">>, sourceType |-> "official", resolvedAt |-> "yesterday"] }

DeepWikiInputs == DeepWikiValid \cup DeepWikiInvalid

InvalidInputs(kind) == IF kind = "context7" THEN Context7Invalid ELSE DeepWikiInvalid

RepoInputs(kind) == IF kind = "context7" THEN Context7Inputs ELSE DeepWikiInputs

RepoKinds == {"context7", "deepwiki"}

RepoLookupNames == { <<"a">>, <<" ", "A">>, <<"X">>, <<"b", " ">>, <<"c">> }

----------------------------------------------------------------------------
(* BaseCacheRepository: one action per state-changing operation. sut names
   the subclass. *)

repo == RepoState(repoEntries, order)

RepoUpsert(input) ==
    /\ sut \in RepoKinds
    /\ LET parsed == parseInput(sut, input)
       IN  IF parsed = <<>>
           THEN /\ threw' = TRUE
                /\ UNCHANGED <<repoEntries, order>>
           ELSE LET rs == repoUpsertParsed(repo, sut, parsed[1], maxEntries)
                IN  /\ repoEntries' = rs.entries
                    /\ order' = rs.order
                    /\ threw' = FALSE
    /\ UNCHANGED <<sut, maxEntries, entries, aliasIndex, clock, accessed, evicted, expired, held>>
    /\ UNCHANGED injectorVars
    /\ UNCHANGED memoryVars
    /\ UNCHANGED mutexVars

\* getByName reads only: no field of the repository changes
RepoGetByName(name) ==
    /\ sut \in RepoKinds
    /\ getByName(repo, name) \in {<<>>} \cup {<<repoEntries[k]>> : k \in DOMAIN repoEntries}
    /\ UNCHANGED <<sut, entries, aliasIndex, clock, accessed, evicted, expired, held>>
    /\ UNCHANGED injectorVars
    /\ UNCHANGED memoryVars
    /\ UNCHANGED repoVars
    /\ UNCHANGED mutexVars

RepoClear ==
    /\ sut \in RepoKinds
    /\ repoEntries' = NoEntries
    /\ order' = <<>>
    /\ threw' = FALSE
    /\ UNCHANGED <<sut, maxEntries, entries, aliasIndex, clock, accessed, evicted, expired, held>>
    /\ UNCHANGED injectorVars
    /\ UNCHANGED memoryVars
    /\ UNCHANGED mutexVars

InitRepo ==
    /\ repoEntries = NoEntries
    /\ order = <<>>
    /\ threw = FALSE

NextRepo ==
    \/ \E input \in RepoInputs(sut) : RepoUpsert(input)
    \/ \E name \in RepoLookupNames : RepoGetByName(name)
    \/ RepoClear

----------
(* LibraryCacheStore: one action per public operation, run to completion
   (the callbacks contain no await). Date.now() reads clock, which never
   runs backwards. *)

store == StoreState(entries, aliasIndex)

\* history: key was just upserted or got; keep only stored keys (recorded when sut = "recency")
touch(recency, key, stored) ==
    IF sut # "recency" THEN recency
    ELSE SelectSeq(recency, LAMBDA k : k # key /\ k \in stored)
             \o (IF key \in stored THEN <<key>> ELSE <<>>)

\* { ...entry } copies the fields of entry, so the copy's aliases is the
\* array of entry: what a copy of the entry stored under its key shares
copyShares(record) ==
    IF HasAliases(record) THEN {<<normalizeKey(record.searchTerm), "aliases">>} ELSE {}

\* upsert stores nextEntry = { ...entry, ... } and returns nextEntry itself:
\* the caller holds the stored object, and the input's aliases array is its array
upsertShares(input) ==
    {<<normalizeKey(input.searchTerm), "entry">>} \cup copyShares(input)

\* entries.set(key, nextEntry) puts a new object under key: what was held
\* of the object it replaces no longer reaches the store
replaced(refs, key) == {r \in refs : r[1] # key}

\* the references held after a call that hands out shares: those into
\* objects that are still stored
handedOut(refs, pairs, shares) ==
    IF sut # "shared" THEN refs
    ELSE {r \in refs \cup shares : r[1] \in MapKeys(pairs)}

Tick ==
    /\ sut \in {"store", "recency", "shared", "concurrent"}
    /\ clock < MaxClock
    /\ clock' = clock + 1
    /\ UNCHANGED <<sut, entries, aliasIndex, accessed, evicted, expired, held>>
    /\ UNCHANGED injectorVars
    /\ UNCHANGED memoryVars
    /\ UNCHANGED repoVars
    /\ UNCHANGED mutexVars

Upsert(input) ==
    /\ sut \in {"store", "recency", "shared"}
    /\ \E written \in {upsertWrite(store, input, clock)} :
       \E after \in {enforceCapacity(written)} :
           /\ entries' = after.entries
           /\ aliasIndex' = after.aliasIndex
           /\ accessed' = touch(accessed, normalizeKey(input.searchTerm), MapKeys(after.entries))
           /\ evicted' = MapKeys(written.entries) \ MapKeys(after.entries)
           /\ expired' = MapKeys(entries) \ MapKeys(pruneExpired(store, clock).entries)
           /\ held' = handedOut(replaced(held, normalizeKey(input.searchTerm)), after.entries,
                                upsertShares(input))
    /\ UNCHANGED <<sut, clock>>
    /\ UNCHANGED injectorVars
    /\ UNCHANGED memoryVars
    /\ UNCHANGED repoVars
    /\ UNCHANGED mutexVars

Get(term) ==
    /\ sut \in {"store", "recency", "shared"}
    /\ \E r \in {get(store, term, clock)} :
           /\ entries' = r.st.entries
           /\ aliasIndex' = r.st.aliasIndex
           /\ accessed' = IF r.value = <<>>
                          THEN SelectSeq(accessed, LAMBDA k : k \in MapKeys(r.st.entries))
                          ELSE touch(accessed, normalizeKey(r.value[1].searchTerm), MapKeys(r.st.entries))
           /\ expired' = MapKeys(entries) \ MapKeys(r.st.entries)
           /\ held' = handedOut(held, r.st.entries,
                                IF r.value = <<>> THEN {} ELSE copyShares(r.value[1]))
    /\ evicted' = {}
    /\ UNCHANGED <<sut, clock>>
    /\ UNCHANGED injectorVars
    /\ UNCHANGED memoryVars
    /\ UNCHANGED repoVars
    /\ UNCHANGED mutexVars

GetSnapshot(limit, kind) ==
    /\ sut \in {"store", "recency", "shared"}
    /\ \E r \in {getSnapshot(store, limit, kind, clock)} :
           /\ entries' = r.st.entries
           /\ aliasIndex' = r.st.aliasIndex
           /\ accessed' = SelectSeq(accessed, LAMBDA k : k \in MapKeys(r.st.entries))
           /\ expired' = MapKeys(entries) \ MapKeys(r.st.entries)
           /\ held' = handedOut(held, r.st.entries,
                                UNION {copyShares(r.value.libraries[i]) : i \in 1..Len(r.value.libraries)}
                                \cup UNION {copyShares(r.value.repositories[i]) :
                                                i \in 1..Len(r.value.repositories)})
    /\ evicted' = {}
    /\ UNCHANGED <<sut, clock>>
    /\ UNCHANGED injectorVars
    /\ UNCHANGED memoryVars
    /\ UNCHANGED repoVars
    /\ UNCHANGED mutexVars

InitStore ==
    /\ entries = <<>>
    /\ aliasIndex = NoAliases
    /\ clock = 0
    /\ accessed = <<>>
    /\ evicted = {}
    /\ expired = {}
    /\ held = {}

\* what a caller does to an object it holds: push onto or empty an aliases
\* array, assign a field of an entry
CallerChanges == {"push", "clear", "assign"}

\* the stored entry after the caller's change to the object behind ref
changedEntry(entry, ref, change) ==
    IF ref[2] = "aliases" /\ change = "push" THEN [entry EXCEPT !.aliases = Append(@, <<"c">>)]
    ELSE IF ref[2] = "aliases" /\ change = "clear" THEN [entry EXCEPT !.aliases = <<>>]
    ELSE IF ref[2] = "entry" /\ change = "assign" THEN [entry EXCEPT !.sourceType = "website"]
    ELSE entry

\* the store after a caller changed, outside any store call, the object behind ref
callerMutates(st, ref, change) ==
    StoreState(MapSet(st.entries, ref[1], changedEntry(MapGet(st.entries, ref[1]), ref, change)),
               st.aliasIndex)

CallerMutates(ref, change) ==
    /\ sut = "shared"
    /\ ref \in held
    /\ \E after \in {callerMutates(store, ref, change)} :
           /\ after.entries # entries
           /\ HasAliases(MapGet(after.entries, ref[1]))
                  => Len(MapGet(after.entries, ref[1]).aliases) <= MaxAliases
           /\ entries' = after.entries
           /\ aliasIndex' = after.aliasIndex
    /\ evicted' = {}
    /\ expired' = {}
    /\ UNCHANGED <<sut, clock, accessed, held>>
    /\ UNCHANGED injectorVars
    /\ UNCHANGED memoryVars
    /\ UNCHANGED repoVars
    /\ UNCHANGED mutexVars

NextStore ==
    \/ Tick
    \/ \E input \in CacheEntryInputs : Upsert(input)
    \/ \E term \in LookupTerms : Get(term)
    \/ \E limit \in 0..MaxLimit, kind \in SnapshotKinds : GetSnapshot(limit, kind)

----------------------------------------------------------------------------
(* LibraryCacheInjector, in its two implementations: the one that reads
   LibraryCacheStore and the one that reads the repository of its kind. A
   message is [role, parts] (parts stands for content.parts), a text a
   sequence of string pieces. *)

\* an injector that never finds the marker of a prior injection
includesNothing(text, piece) == FALSE

includes(text, piece) == \E i \in 1..Len(text) : text[i] = piece

\* part.type === "text" && typeof part.text === "string"
isTextMessagePart(part) == part.type = "text" /\ "text" \in DOMAIN part

\* `${reminderBlock}\n${text}`
prepend(reminderBlock, text) == reminderBlock \o <<"\n">> \o text

\* the payload of the store-backed injector, by its kind
storePayload(kind, snapshot) ==
    IF kind = "context7" THEN [libraries |-> snapshot.libraries]
    ELSE IF kind = "deepwiki" THEN [repositories |-> snapshot.repositories]
    ELSE [libraries |-> snapshot.libraries, repositories |-> snapshot.repositories]

\* JSON.stringify is one piece of text that spells out the payload
storeReminderBlock(payload) ==
    <<"<system-reminder>", "\nCurrent cache state (JSON): ", ToString(payload),
      "\n</system-reminder>">>

\* the loop over msg.content.parts: only the first text part is looked at
RECURSIVE injectIntoFirstText(_, _)
injectIntoFirstText(parts, reminderBlock) ==
    IF parts = <<>> THEN parts
    ELSE IF ~isTextMessagePart(Head(parts))
         THEN <<Head(parts)>> \o injectIntoFirstText(Tail(parts), reminderBlock)
    ELSE IF includes(Head(parts).text, "<system-reminder>") THEN parts
    ELSE <<[Head(parts) EXCEPT !.text = prepend(reminderBlock, @)]>> \o Tail(parts)

storeInjectMessages(msgs, reminderBlock) ==
    [i \in 1..Len(msgs) |->
        IF msgs[i].role # "user" THEN msgs[i]
        ELSE [msgs[i] EXCEPT !.parts = injectIntoFirstText(@, reminderBlock)]]

\* processInput after getSnapshot
storeProcessSnapshot(msgs, kind, r) ==
    [st |-> r.st,
     messages |-> IF r.value.libraries = <<>> /\ r.value.repositories = <<>> THEN msgs
                  ELSE storeInjectMessages(msgs, storeReminderBlock(storePayload(kind, r.value)))]

\* processInput of the store-backed injector: the store and the messages after it
storeProcessInput(st, msgs, limit, kind, now) ==
    IF msgs = <<>> THEN [st |-> st, messages |-> msgs]
    ELSE storeProcessSnapshot(msgs, kind, getSnapshot(st, limit, kind, now))

Max(a, b) == IF a >= b THEN a ELSE b

\* entries.slice(-limit), for limit >= 1
sliceLast(list, limit) == SubSeq(list, Max(1, Len(list) - limit + 1), Len(list))

\* JSON.stringify(payload, null, 2) is one piece of text that spells out the payload
repoReminderBlock(payload) ==
    <<"<system-reminder>", "\nCurrent cache state (JSON):\n", ToString(payload),
      "\n</system-reminder>">>

\* firstTextPart.text = ...: the first text part of parts, changed in place
RECURSIVE prependToFirstText(_, _)
prependToFirstText(parts, reminderBlock) ==
    IF parts = <<>> THEN parts
    ELSE IF isTextMessagePart(Head(parts))
         THEN <<[Head(parts) EXCEPT !.text = prepend(reminderBlock, @)]>> \o Tail(parts)
    ELSE <<Head(parts)>> \o prependToFirstText(Tail(parts), reminderBlock)

\* the body of the loop over messages
repoInjectMessage(msg, reminderBlock) ==
    IF msg.role # "user" THEN msg
    ELSE IF \E i \in 1..Len(msg.parts) :
                isTextMessagePart(msg.parts[i]) /\ includes(msg.parts[i].text, "<system-reminder>")
         THEN msg
    ELSE IF \E i \in 1..Len(msg.parts) : isTextMessagePart(msg.parts[i])
         THEN [msg EXCEPT !.parts = prependToFirstText(@, reminderBlock)]
    ELSE [msg EXCEPT !.parts = <<[type |-> "text", text |-> reminderBlock]>> \o @]

\* processInput after getAll
repoProcessEntries(msgs, cached, limit) ==
    IF cached = <<>> THEN msgs
    ELSE [i \in 1..Len(msgs) |->
             repoInjectMessage(msgs[i], repoReminderBlock(sliceLast(cached, limit)))]

\* processInput of the repository-backed injector, constructed with
\* options.limit = optionsLimit: the messages after it
repoProcessInput(rs, msgs, optionsLimit) ==
    IF msgs = <<>> THEN msgs
    ELSE repoProcessEntries(msgs, getAll(rs), Max(1, optionsLimit))

\* the message lists that processInput is given
MessageLists ==
    { << [role |-> "user", parts |-> << [type |-> "text", text |-> <<"hi">>] >>] >>,
      << [role |-> "assistant", parts |-> << [type |-> "text", text |-> <<"ok">>] >>],
         [role |-> "user", parts |-> << [type |-> "file"],
                                        [type |-> "text", text |-> <<"see">>],
                                        [type |-> "text", text |-> <<"a ", "<system-reminder>", " tag">>] >>] >>,
      << [role |-> "user", parts |-> << [type |-> "file"] >>],
         [role |-> "user", parts |-> << [type |-> "text", text |-> <<"<system-reminder>", "mine">>] >>] >>,
      << >> }

ProcessInputStore(limit, kind) ==
    /\ sut = "store"
    /\ \E r \in {storeProcessInput(store, messages, limit, kind, clock)} :
           /\ entries' = r.st.entries
           /\ aliasIndex' = r.st.aliasIndex
           /\ expired' = MapKeys(entries) \ MapKeys(r.st.entries)
           /\ messages' = r.messages
    /\ evicted' = {}
    /\ UNCHANGED <<sut, clock, accessed, held, original>>
    /\ UNCHANGED memoryVars
    /\ UNCHANGED repoVars
    /\ UNCHANGED mutexVars

ProcessInputRepo(optionsLimit) ==
    /\ sut \in RepoKinds
    /\ messages' = repoProcessInput(repo, messages, optionsLimit)
    /\ UNCHANGED <<sut, entries, aliasIndex, clock, accessed, evicted, expired, held, original>>
    /\ UNCHANGED memoryVars
    /\ UNCHANGED repoVars
    /\ UNCHANGED mutexVars

\* what is cached while an injector runs: the injector only prints the entries
InjectorInputs == { input \in CacheEntryInputs : input.resolvedAt = "t1" }

\* a message list is handed to the injector
InitMessages ==
    /\ messages \in MessageLists
    /\ original = messages

NextInjector ==
    \/ Tick
    \/ \E input \in InjectorInputs : Upsert(input)
    \/ \E limit \in 0..MaxLimit, kind \in SnapshotKinds : ProcessInputStore(limit, kind)
    \/ \E input \in RepoInputs(sut) : RepoUpsert(input)
    \/ RepoClear
    \/ \E optionsLimit \in 0..MaxLimit : ProcessInputRepo(optionsLimit)

----------------------------------------------------------------------------
(* Mutex.runExclusive on the JavaScript job queue. Every action is one
   synchronous run to completion; an await ends it and its continuation is a
   microtask, queued at once when the awaited promise is already settled and
   at its settlement otherwise. Calls are numbered in the order issued. *)

Calls == 1..MaxCalls

\* as admissionTurns, but upsert awaits once before it calls runExclusive
admissionTurnsUpsertLate(op) == IF op = "upsert" THEN 1 ELSE 0


\* microtask turns between the call of upsert/get/getSnapshot and the
\* synchronous part of runExclusive: none, the methods call it directly
admissionTurns(op) == 0

\* const previous = this.mutex
previousOf(currentMutex) == currentMutex

\* as nextMutex, but this.mutex is never reassigned
nextMutexKept(currentMutex, i) == currentMutex


\* this.mutex = new Promise(...): the promise made by call i
nextMutex(currentMutex, i) == i

\* as settledPrevious, but previous is not awaited
settledPreviousUnawaited(prev, releasedCalls) == TRUE


\* await previous: the continuation may be queued once previous is fulfilled
settledPrevious(prev, releasedCalls) == prev = 0 \/ prev \in releasedCalls

\* the callback of a store operation applied to a store state
applyCall(st, c, now) ==
    CASE c.op = "upsert" -> upsert(st, c.input, now)
      [] c.op = "get" -> get(st, c.term, now)
      [] c.op = "getSnapshot" -> getSnapshot(st, c.limit, c.kind, now)

\* jobs for the calls in waiters, in the order they started to wait
RECURSIVE jobsOf(_, _)
jobsOf(waiters, continuation) ==
    IF waiters = {} THEN <<>>
    ELSE LET first == CHOOSE w \in waiters : \A v \in waiters : w <= v
         IN  <<<<first, continuation>>>> \o jobsOf(waiters \ {first}, continuation)

\* the synchronous part of runExclusive for call i, up to `await previous`
enterChain(i, queue) ==
    LET prev == previousOf(mutex)
        ready == settledPrevious(prev, released)
    IN  /\ previous' = [previous EXCEPT ![i] = prev]
        /\ mutex' = nextMutex(mutex, i)
        /\ pc' = [pc EXCEPT ![i] = IF ready THEN "resuming" ELSE "awaitPrevious"]
        /\ microtasks' = IF ready THEN Append(queue, <<i, "afterPrevious">>) ELSE queue

\* as releaseAndFinish, but release() is skipped when the callback failed
releaseUnlessFailed(i, queue) ==
    LET failed == call[i].op \in {"syncThrow", "asyncReject"}
        waiters == IF failed THEN {}
                   ELSE {w \in Calls : pc[w] = "awaitPrevious" /\ previous[w] = i}
    IN  /\ released' = IF failed THEN released ELSE released \cup {i}
        /\ pc' = [w \in Calls |-> IF w = i THEN "done"
                                  ELSE IF w \in waiters THEN "resuming" ELSE pc[w]]
        /\ microtasks' = queue \o jobsOf(waiters, "afterPrevious")

\* finally { release() } of call i: fulfils its promise and queues who awaits it
releaseAndFinish(i, queue) ==
    LET waiters == {w \in Calls : pc[w] = "awaitPrevious" /\ previous[w] = i}
    IN  /\ released' = released \cup {i}
        /\ pc' = [w \in Calls |-> IF w = i THEN "done"
                                  ELSE IF w \in waiters THEN "resuming" ELSE pc[w]]
        /\ microtasks' = queue \o jobsOf(waiters, "afterPrevious")

NextCall == CHOOSE i \in Calls : pc[i] = "idle" /\ \A w \in Calls : pc[w] = "idle" => i <= w

\* a caller calls runExclusive(callback), or a store method that does
Issue(c) ==
    /\ \E i \in Calls : pc[i] = "idle"
    /\ LET i == NextCall
       IN  /\ call' = [call EXCEPT ![i] = c]
           /\ IF admissionTurns(c.op) = 0
              THEN enterChain(i, microtasks)
              ELSE /\ pc' = [pc EXCEPT ![i] = "called"]
                   /\ microtasks' = Append(microtasks, <<i, "enter">>)
                   /\ UNCHANGED <<previous, mutex>>
    /\ UNCHANGED <<released, outcome, results>>

\* the callback of call i runs: to its end when synchronous, to its first await otherwise
startCallback(i, queue) ==
    LET c == call[i]
    IN  IF c.op = "syncThrow"
        THEN /\ outcome' = [outcome EXCEPT ![i] = "rejected"]
             /\ releaseAndFinish(i, queue)
             /\ UNCHANGED <<entries, aliasIndex, results>>
        ELSE IF c.op \in {"async", "asyncReject"}
        THEN /\ pc' = [pc EXCEPT ![i] = "inCallback"]
             /\ microtasks' = queue
             /\ UNCHANGED <<outcome, released, entries, aliasIndex, results>>
        ELSE /\ pc' = [pc EXCEPT ![i] = "awaitCallback"]
             /\ microtasks' = Append(queue, <<i, "afterCallback">>)
             /\ outcome' = [outcome EXCEPT ![i] = "fulfilled"]
             /\ UNCHANGED released
             /\ IF c.op = "sync"
                THEN UNCHANGED <<entries, aliasIndex, results>>
                ELSE LET r == applyCall(store, c, clock)
                     IN  /\ entries' = r.st.entries
                         /\ aliasIndex' = r.st.aliasIndex
                         /\ results' = [results EXCEPT ![i] = <<[now |-> clock, value |-> r.value]>>]

\* the engine runs the first microtask
RunMicrotask ==
    /\ sut \in {"mutex", "concurrent"}
    /\ microtasks # <<>>
    /\ LET i == Head(microtasks)[1]
           continuation == Head(microtasks)[2]
           rest == Tail(microtasks)
       IN  IF continuation = "enter"
           THEN /\ enterChain(i, rest)
                /\ UNCHANGED <<released, outcome, entries, aliasIndex, results>>
           ELSE IF continuation = "afterPrevious"
           THEN /\ startCallback(i, rest)
                /\ UNCHANGED <<previous, mutex>>
           ELSE /\ releaseAndFinish(i, rest)
                /\ UNCHANGED <<previous, mutex, outcome, entries, aliasIndex, results>>
    /\ UNCHANGED <<sut, call, clock, accessed, evicted, expired, held>>
    /\ UNCHANGED injectorVars
    /\ UNCHANGED memoryVars
    /\ UNCHANGED repoVars

\* what the callback of call i awaits has settled: anything but this Mutex
\* settles on its own, an inner runExclusive call when its promise does
awaitedSettled(i) == call[i].op = "awaitsInner" => pc[call[i].inner] = "done"

\* how the callback of call i settles: with what it awaited
settlesAs(i) ==
    IF call[i].op = "asyncReject" THEN "rejected"
    ELSE IF call[i].op = "awaitsInner" THEN outcome[call[i].inner]
    ELSE "fulfilled"

\* what an asynchronous callback awaits settles, and so does the callback
Settle(i) ==
    /\ sut = "mutex"
    /\ pc[i] = "inCallback"
    /\ awaitedSettled(i)
    /\ pc' = [pc EXCEPT ![i] = "awaitCallback"]
    /\ outcome' = [outcome EXCEPT ![i] = settlesAs(i)]
    /\ microtasks' = Append(microtasks, <<i, "afterCallback">>)
    /\ UNCHANGED <<sut, call, previous, mutex, released, results>>
    /\ UNCHANGED injectorVars
    /\ UNCHANGED memoryVars
    /\ UNCHANGED <<entries, aliasIndex, clock, accessed, evicted, expired, held>>
    /\ UNCHANGED repoVars

CallbackKinds == {"sync", "syncThrow", "async", "asyncReject"}

IssueCallback(kind) ==
    /\ sut = "mutex"
    /\ Issue([op |-> kind])
    /\ UNCHANGED <<sut, entries, aliasIndex, clock, accessed, evicted, expired, held>>
    /\ UNCHANGED injectorVars
    /\ UNCHANGED memoryVars
    /\ UNCHANGED repoVars

\* the running asynchronous callback of call j calls runExclusive(callback) on
\* the same Mutex and awaits the promise it returns
IssueNested(j, kind) ==
    /\ sut = "mutex"
    /\ pc[j] = "inCallback"
    /\ call[j].op = "async"
    /\ \E i \in Calls : pc[i] = "idle"
    /\ call' = [call EXCEPT ![NextCall] = [op |-> kind],
                            ![j] = [op |-> "awaitsInner", inner |-> NextCall]]
    /\ enterChain(NextCall, microtasks)
    /\ UNCHANGED <<released, outcome, results>>
    /\ UNCHANGED <<sut, entries, aliasIndex, clock, accessed, evicted, expired, held>>
    /\ UNCHANGED injectorVars
    /\ UNCHANGED memoryVars
    /\ UNCHANGED repoVars

\* the store calls issued concurrently
ConcurrentCalls ==
    {[op |-> "upsert", input |-> input] : input \in
        {in \in CacheEntryInputs : normalizeKey(in.searchTerm) \in {<<"a">>, <<"b">>, <<"c">>}}}
    \cup {[op |-> "get", term |-> term] : term \in {<<"A", " ">>, <<" ", "X">>}}
    \cup {[op |-> "getSnapshot", limit |-> 1, kind |-> "all"]}

IssueStoreCall(c) ==
    /\ sut = "concurrent"
    /\ Issue(c)
    /\ UNCHANGED <<sut, entries, aliasIndex, clock, accessed, evicted, expired, held>>
    /\ UNCHANGED injectorVars
    /\ UNCHANGED memoryVars
    /\ UNCHANGED repoVars

InitMutexVars ==
    /\ mutex = 0
    /\ released = {}
    /\ pc = [i \in Calls |-> "idle"]
    /\ call = [i \in Calls |-> [op |-> "none"]]
    /\ previous = [i \in Calls |-> 0]
    /\ outcome = [i \in Calls |-> "none"]
    /\ microtasks = <<>>
    /\ results = [i \in Calls |-> <<>>]

NextMutex ==
    \/ \E kind \in CallbackKinds : IssueCallback(kind)
    \/ RunMicrotask
    \/ \E i \in Calls : Settle(i)

\* updateContext7Cache and updateDeepWikiCache build the record from the
\* payload and its kind: the records they upsert
UpdateRecords ==
    {input \in CacheEntryInputs : normalizeKey(input.searchTerm) \in {<<"a">>, <<"b">>, <<"c">>}}

\* the first await of an update call: store.upsert(record)
IssueUpdate(input) == IssueStoreCall([op |-> "upsert", input |-> input])

\* the second await of the update call whose upsert was call u:
\* store.getSnapshot(DEFAULT_CACHE_INJECTION_LIMIT), called once that upsert has resolved
IssueSnapshotOf(u) ==
    /\ pc[u] = "done"
    /\ call[u].op = "upsert"
    /\ \A g \in Calls : call[g].op = "getSnapshot" => call[g].update # u
    /\ IssueStoreCall([op |-> "getSnapshot", limit |-> DEFAULT_CACHE_INJECTION_LIMIT,
                       kind |-> "all", update |-> u])

\* snapshot.libraries.length + snapshot.repositories.length
totalCached(snapshot) == Len(snapshot.libraries) + Len(snapshot.repositories)

\* update calls in any number and interleaving, all within one TTL
NextTools ==
    \/ \E input \in UpdateRecords : IssueUpdate(input)
    \/ \E u \in Calls : IssueSnapshotOf(u)
    \/ RunMicrotask

----------------------------------------------------------------------------
(* The repositoryCache field of the DeepWiki agent's working-memory schema. *)

\* z.string().trim() on searchTerm and repository
parseCacheEntry(entry) ==
    [entry EXCEPT !.searchTerm = trim(@), !.repository = trim(@)]

\* Array.prototype.reverse
reverse(list) == [i \in 1..Len(list) |-> list[Len(list) + 1 - i]]

\* the .filter with seenRepositories: an entry stays when its repository was not seen
RECURSIVE filterUnseen(_, _)
filterUnseen(list, seenRepositories) ==
    IF list = <<>> THEN <<>>
    ELSE IF Head(list).repository \in seenRepositories
         THEN filterUnseen(Tail(list), seenRepositories)
    ELSE <<Head(list)>>
           \o filterUnseen(Tail(list), seenRepositories \cup {Head(list).repository})

\* a transform that filters without reversing first
dedupeKeepFirst(list) ==
    SubSeq(filterUnseen(list, {}), 1,
           Min(REPOSITORY_CACHE_LIMIT, Len(filterUnseen(list, {}))))

\* the .transform: entries.reverse().filter(...).slice(0, 10).reverse()
dedupeTransform(list) ==
    reverse(SubSeq(filterUnseen(reverse(list), {}), 1,
                   Min(REPOSITORY_CACHE_LIMIT, Len(filterUnseen(reverse(list), {})))))

\* what the schema parses the array to: the element schema, then the transform
parseRepositoryCache(list) ==
    dedupeTransform([i \in 1..Len(list) |-> parseCacheEntry(list[i])])

\* the entries an agent writes to its working memory
CacheEntries ==
    { [searchTerm |-> term, repository |-> repository] :
        term \in { <<"s">>, <<"t">> },
        repository \in { <<"a">>, <<" ", "a">>, <<"b">>, <<"c">> } }

CacheLists == UNION { [1..n -> CacheEntries] : n \in 0..MaxCacheLen }

\* the working memory is validated against the schema
ParseRepositoryCache ==
    /\ sut = "memory"
    /\ parsedCache = <<>>
    /\ parsedCache' = <<parseRepositoryCache(repositoryCache)>>
    /\ UNCHANGED <<sut, repositoryCache>>
    /\ UNCHANGED <<entries, aliasIndex, clock, accessed, evicted, expired, held>>
    /\ UNCHANGED injectorVars
    /\ UNCHANGED repoVars
    /\ UNCHANGED mutexVars

\* callers of the Mutex, among them its own callbacks
NextReentrant ==
    \/ NextMutex
    \/ \E j \in Calls, kind \in CallbackKinds : IssueNested(j, kind)

NextConcurrent ==
    \/ \E c \in ConcurrentCalls : IssueStoreCall(c)
    \/ RunMicrotask
    \/ Tick

vars == <<sut, entries, aliasIndex, clock, accessed, evicted, expired, held,
         repoEntries, order, maxEntries, threw,
         mutex, released, pc, call, previous, outcome, microtasks, results,
         messages, original, repositoryCache, parsedCache>>

\* no message list is processed
InitNoMessages ==
    /\ messages = <<>>
    /\ original = <<>>

\* no working memory is parsed
InitNoMemory ==
    /\ repositoryCache = <<>>
    /\ parsedCache = <<>>

InitAll ==
    /\ InitStore
    /\ InitRepo
    /\ InitMutexVars

\* The store and the two repositories are independent objects: a behaviour
\* exercises one of them, the others stay as constructed.
Init ==
    /\ sut \in {"store"} \cup RepoKinds
    /\ maxEntries \in 1..MaxRepoEntries
    /\ sut = "store" => maxEntries = 1
    /\ InitAll
    /\ InitNoMemory
    /\ InitNoMessages

Next == NextStore \/ NextRepo

Spec == Init /\ [][Next]_vars

\* The store on its own.
InitStoreAlone == sut = "store" /\ maxEntries = 1 /\ InitAll /\ InitNoMemory /\ InitNoMessages

SpecStore == InitStoreAlone /\ [][NextStore]_vars

\* The store given records of both kinds under the same search terms.
NextKinds ==
    \/ Tick
    \/ \E input \in CrossKindInputs : Upsert(input)
    \/ \E term \in LookupTerms : Get(term)
    \/ \E limit \in 0..MaxLimit, kind \in SnapshotKinds : GetSnapshot(limit, kind)

SpecKinds == InitStoreAlone /\ [][NextKinds]_vars

\* One of the two repositories on its own.
InitRepository ==
    /\ sut \in RepoKinds
    /\ maxEntries \in 1..MaxRepoEntries
    /\ InitAll
    /\ InitNoMemory
    /\ InitNoMessages

SpecRepository == InitRepository /\ [][NextRepo]_vars

\* The store with the history of its calls in accessed.
InitRecency == sut = "recency" /\ maxEntries = 1 /\ InitAll /\ InitNoMemory /\ InitNoMessages

SpecRecency == InitRecency /\ [][NextStore]_vars

\* The store with callers that change the objects they hold between calls.
InitShared == sut = "shared" /\ maxEntries = 1 /\ InitAll /\ InitNoMemory /\ InitNoMessages

\* every call reads the same Date.now(): sharing does not depend on time
NextShared ==
    \/ \E input \in CacheEntryInputs : Upsert(input)
    \/ \E term \in LookupTerms : Get(term)
    \/ \E limit \in 0..MaxLimit, kind \in SnapshotKinds : GetSnapshot(limit, kind)
    \/ \E ref \in held, change \in CallerChanges : CallerMutates(ref, change)

SpecShared == InitShared /\ [][NextShared]_vars

\* An injector over the store or over a repository, and the writes to that cache.
InitInjector ==
    /\ sut \in {"store"} \cup RepoKinds
    /\ maxEntries \in 1..MaxRepoEntries
    /\ sut = "store" => maxEntries = 1
    /\ InitAll
    /\ InitNoMemory
    /\ InitMessages

SpecInjector == InitInjector /\ [][NextInjector]_vars

\* A Mutex of its own, with callbacks that return, throw or suspend.
InitMutex == sut = "mutex" /\ maxEntries = 1 /\ InitAll /\ InitNoMemory /\ InitNoMessages

SpecMutex == InitMutex /\ [][NextMutex]_vars

\* The engine runs every queued microtask, and whatever a callback awaits
\* outside the Mutex settles.
MutexFairness ==
    /\ WF_vars(RunMicrotask)
    /\ \A i \in Calls : WF_vars(Settle(i))

SpecMutexFair == InitMutex /\ [][NextMutex]_vars /\ MutexFairness

\* A repositoryCache array and its parse.
InitMemory ==
    /\ sut = "memory"
    /\ maxEntries = 1
    /\ InitAll
    /\ InitNoMessages
    /\ repositoryCache \in CacheLists
    /\ parsedCache = <<>>

SpecMemory == InitMemory /\ [][ParseRepositoryCache]_vars

\* A Mutex whose callbacks may call it again.
SpecReentrant == InitMutex /\ [][NextReentrant]_vars

\* The store behind its Mutex, with calls issued while others are pending.
InitConcurrent == sut = "concurrent" /\ maxEntries = 1 /\ InitAll /\ InitNoMemory /\ InitNoMessages

SpecConcurrent == InitConcurrent /\ [][NextConcurrent]_vars

\* The cache update tools over the store and its Mutex.
SpecTools == InitConcurrent /\ [][NextTools]_vars

----------
(* Helpers of the properties. *)

\* position of a stored key in the Map's insertion order
Position(m, k) == MapIndex(m, k)

\* key a was upserted or got after key b, by the history in recency
Later(recency, a, b) ==
    \E i, j \in 1..Len(recency) : recency[i] = a /\ recency[j] = b /\ i > j

UpperChar(c) ==
    CASE c = "a" -> "A"
      [] c = "b" -> "B"
      [] c = "c" -> "C"
      [] c = "x" -> "X"
      [] OTHER -> c

\* spellings of a term that differ by letter case or surrounding whitespace
Spellings(term) ==
    LET core == trim(term)
        upper == [i \in 1..Len(core) |-> UpperChar(core[i])]
        lower == [i \in 1..Len(core) |-> LowerChar(core[i])]
    IN  {term, upper, lower, <<" ">> \o upper, lower \o <<" ">>, <<" ">> \o core \o <<" ">>}

\* the input fields of a stored or returned record
withoutBookkeeping(entry) ==
    [f \in DOMAIN entry \ {"lastAccessedAt", "updatedAt"} |-> entry[f]]

NotExpiredAt(entry, now) == now - entry.updatedAt <= CACHE_TTL_MS

\* no entry stored in st is past its TTL at now
StoredFresh(st, now) ==
    \A i \in 1..Len(st.entries) : NotExpiredAt(st.entries[i][2], now)

\* every entry of after, those under the keys in upserted apart, was in before
\* with the same updatedAt
KeepsUpdatedAt(before, after, upserted) ==
    \A k \in MapKeys(after.entries) \ upserted :
        /\ MapHas(before.entries, k)
        /\ MapGet(after.entries, k).updatedAt = MapGet(before.entries, k).updatedAt

\* what a snapshot may list at now: the stored entries within their TTL
LiveRecords(st, now) ==
    {stripBookkeeping(st.entries[i][2]) :
        i \in {j \in 1..Len(st.entries) : NotExpiredAt(st.entries[j][2], now)}}

----------------------------------------------------------------------------
(* C1: after every completed operation the store holds at most
   CACHE_MAX_ENTRIES entries, and a repository constructed with
   maxEntries >= 1 holds at most maxEntries entries. *)
C1_SizeBounded ==
    /\ Len(entries) <= CACHE_MAX_ENTRIES
    /\ size(repo) <= maxEntries

\* an upsert into a full store has just evicted, and the store is still full
C1_Witness ==
    /\ evicted # {}
    /\ Len(entries) = CACHE_MAX_ENTRIES

(* C2: at most one callback of a Mutex is between its start and its
   settlement, however many runExclusive calls are pending and also when
   callbacks suspend at an await. *)
C2_MutualExclusion ==
    Cardinality({i \in Calls : pc[i] = "inCallback"}) <= 1

\* a callback is suspended at an await while two later calls wait for the Mutex
C2_Witness ==
    \E i \in Calls :
        /\ pc[i] = "inCallback"
        /\ Cardinality({w \in Calls : pc[w] = "awaitPrevious"}) >= 2

(* C3: the store calls take effect one at a time in the order issued: the
   calls whose callbacks have run are the first k issued, and running those
   k calls in that order on an empty store, each at the time it read, gives
   the values they returned and the store as it is. *)
RECURSIVE ReplayAgrees(_, _, _)
ReplayAgrees(i, k, st) ==
    IF i > k THEN st = store
    ELSE LET r == applyCall(st, call[i], results[i][1].now)
         IN  r.value = results[i][1].value /\ ReplayAgrees(i + 1, k, r.st)

C3_Linearizable ==
    LET executed == {i \in Calls : results[i] # <<>>}
        k == Cardinality(executed)
    IN  /\ executed = 1..k
        /\ ReplayAgrees(1, k, StoreState(<<>>, NoAliases))

\* an upsert and a get that hit have run while a third call waits for the Mutex
C3_Witness ==
    /\ call[1].op = "upsert"
    /\ call[2].op = "get"
    /\ results[2] # <<>>
    /\ results[2][1].value # <<>>
    /\ pc[2] = "awaitCallback"
    /\ pc[3] = "awaitPrevious"

(* C4: admission is first in, first out: when the callback of a call has
   started, the callback of every call issued before it has settled. *)
C4_FifoAdmission ==
    \A x, y \in Calls :
        (x < y /\ pc[y] \in {"inCallback", "awaitCallback", "done"})
            => pc[x] \in {"awaitCallback", "done"}

\* the first call is done, the second is suspended in its callback, the third waits
C4_Witness ==
    /\ pc[1] = "done"
    /\ pc[2] = "inCallback"
    /\ pc[3] = "awaitPrevious"

(* C5 as stated: when an upsert evicts, no evicted entry A was upserted or got
   more recently (in the order of the calls) than an entry B that stays. *)
C5_EvictsLeastRecentCall ==
    \A input \in CacheEntryInputs :
        \A written \in {upsertWrite(store, input, clock)} :
        \A after \in {enforceCapacity(written)} :
            LET key == normalizeKey(input.searchTerm)
                recency == SelectSeq(accessed, LAMBDA k : k # key) \o <<key>>
            IN  \A a \in MapKeys(written.entries) \ MapKeys(after.entries) :
                \A b \in MapKeys(after.entries) : ~Later(recency, a, b)

(* C5 amended: when an upsert evicts, every evicted entry A has, against every
   entry B that stays, a smaller lastAccessedAt, or an equal one and an earlier
   place in the Map; a get hit sets lastAccessedAt of the entry it returns to
   the time of the get and of no other entry. With a maximum of 2, upserting
   a, b, c into an empty store leaves b and c. *)
C5_EvictsOldestLastAccessedAt ==
    /\ \A input \in CacheEntryInputs :
            \A beforeEviction \in {upsertWrite(store, input, clock)} :
            \A written \in {beforeEviction.entries} :
            \A after \in {enforceCapacity(beforeEviction).entries} :
                \A a \in MapKeys(written) \ MapKeys(after) : \A b \in MapKeys(after) :
                    \A ea \in {MapGet(written, a)} : \A eb \in {MapGet(written, b)} :
                        \/ ea.lastAccessedAt < eb.lastAccessedAt
                        \/ /\ ea.lastAccessedAt = eb.lastAccessedAt
                           /\ Position(written, a) < Position(written, b)
    /\ \A term \in LookupTerms :
            \A r \in {get(store, term, clock)} :
                r.value # <<>> =>
                    \A k \in MapKeys(r.st.entries) :
                        MapGet(r.st.entries, k).lastAccessedAt =
                            IF k = normalizeKey(r.value[1].searchTerm) THEN clock
                            ELSE MapGet(entries, k).lastAccessedAt
    /\ (CACHE_MAX_ENTRIES = 2 /\ entries = <<>>) =>
            \A ia, ib, ic \in CacheEntryInputs :
                LET ka == normalizeKey(ia.searchTerm)
                    kb == normalizeKey(ib.searchTerm)
                    kc == normalizeKey(ic.searchTerm)
                IN  Cardinality({ka, kb, kc}) = 3 =>
                        MapKeys(upsert(upsert(upsert(store, ia, clock).st, ib, clock).st,
                                       ic, clock).st.entries) = {kb, kc}

\* an upsert has just evicted while an entry that a get refreshed stays
C5_Witness ==
    /\ evicted # {}
    /\ \E i \in 1..Len(entries) : entries[i][2].lastAccessedAt > entries[i][2].updatedAt

(* C6: TTL expiry is absolute and applied before any result: no record that
   get or getSnapshot returns at time now has now - updatedAt > CACHE_TTL_MS,
   after any operation no such entry is stored, and updatedAt of a stored
   entry changes only when that entry is upserted. *)
C6_TtlAbsolute ==
    /\ \A term \in LookupTerms :
            \A r \in {get(store, term, clock)} :
                /\ r.value # <<>> => NotExpiredAt(r.value[1], clock)
                /\ StoredFresh(r.st, clock)
                /\ KeepsUpdatedAt(store, r.st, {})
    /\ \A live \in {LiveRecords(store, clock)} :
        \A limit \in 0..MaxLimit, kind \in SnapshotKinds :
            \A r \in {getSnapshot(store, limit, kind, clock)} :
                /\ \A i \in 1..Len(r.value.libraries) : r.value.libraries[i] \in live
                /\ \A i \in 1..Len(r.value.repositories) : r.value.repositories[i] \in live
                /\ StoredFresh(r.st, clock)
                /\ KeepsUpdatedAt(store, r.st, {})
    /\ \A input \in CacheEntryInputs :
            \A r \in {upsert(store, input, clock)} :
                /\ StoredFresh(r.st, clock)
                /\ KeepsUpdatedAt(store, r.st, {normalizeKey(input.searchTerm)})

\* a get has just purged an expired entry and refreshed the entry it returned
C6_Witness ==
    /\ expired # {}
    /\ \E i \in 1..Len(entries) :
          /\ entries[i][2].lastAccessedAt = clock
          /\ entries[i][2].updatedAt < clock

(* C7: after upsert(e), from any prior store state, a get of e.searchTerm
   before the TTL has run out returns a record whose fields other than
   lastAccessedAt and updatedAt are those of e. *)
C7_UpsertThenGet ==
    \A input \in CacheEntryInputs :
        \A after \in {upsert(store, input, clock).st} :
            \A later \in clock..(clock + CACHE_TTL_MS) :
                \A r \in {get(after, input.searchTerm, later).value} :
                    r # <<>> /\ withoutBookkeeping(r[1]) = input

\* an upsert has just evicted, and the key of an entry upserted at this time
\* is an alias of another stored entry
C7_Witness ==
    /\ evicted # {}
    /\ \E i, n \in 1..Len(entries) :
          /\ i # n
          /\ entries[n][2].updatedAt = clock
          /\ HasAliases(entries[i][2])
          /\ \E j \in 1..Len(entries[i][2].aliases) :
                normalizeKey(entries[i][2].aliases[j]) = entries[n][1]

(* C8 as stated: for every stored, unexpired entry E and every alias a of E,
   get of any spelling of a returns what get(E.searchTerm) returns. *)
C8_AliasResolvesToOwner ==
    \A i \in 1..Len(entries) :
        LET E == entries[i][2]
        IN  (NotExpiredAt(E, clock) /\ HasAliases(E)) =>
                \A j \in 1..Len(E.aliases) : \A spelling \in Spellings(E.aliases[j]) :
                    get(store, spelling, clock).value = get(store, E.searchTerm, clock).value

(* C9: every key the alias index maps to is a key of the entry map. *)
C9_AliasIndexPointsToEntries ==
    \A aliasKey \in DOMAIN aliasIndex : aliasIndex[aliasKey] \in MapKeys(entries)

\* an entry with aliases has just been evicted and aliases are still indexed
C9_Witness ==
    /\ evicted \cap {<<"b">>, <<"c">>} # {}
    /\ DOMAIN aliasIndex # {}

(* C10 as stated: no two stored entries of a repository have the same target
   identifier. *)
C10_IdentifiersUnique ==
    \A k1, k2 \in DOMAIN repoEntries :
        k1 # k2 => targetIdentifier(sut, repoEntries[k1]) # targetIdentifier(sut, repoEntries[k2])

\* the inputs of a repository that pass its schema, parsed
ParsedInputs(kind) ==
    {parseInput(kind, input)[1] : input \in RepoInputs(kind) \ InvalidInputs(kind)}

\* the stored keys whose entry has the identifier of parsed
SameIdentifierKeys(rs, kind, parsed) ==
    {k \in DOMAIN rs.entries :
        targetIdentifier(kind, rs.entries[k]) = targetIdentifier(kind, parsed)}

(* C11 as stated: upserting a record whose identifier is that of a stored
   entry does not increase size(), drops the old key when the first name
   differs, and stores the new record's fields under the new first name. *)
C11_SameIdentifierUpdatesInPlace ==
    sut \in RepoKinds =>
        \A parsed \in ParsedInputs(sut) :
            \A old \in {SameIdentifierKeys(repo, sut, parsed)} :
            \A rs \in {repoUpsertParsed(repo, sut, parsed, maxEntries)} :
                old # {} =>
                    /\ size(rs) <= size(repo)
                    /\ \A k \in old : k # parsed.names[1] => k \notin DOMAIN rs.entries
                    /\ parsed.names[1] \in DOMAIN rs.entries
                    /\ rs.entries[parsed.names[1]] = parsed

\* libraryId of a context7 record, repository of a deepwiki record
storeIdentifier(entry) ==
    IF entry.kind = "context7" THEN entry.libraryId ELSE entry.repository

(* C12 as stated: in the store, upserting under a new searchTerm a record
   whose identifier is that of a stored entry of the same kind does not
   increase the number of stored entries. *)
C12_StoreSameIdentifierUpdatesInPlace ==
    \A input \in CacheEntryInputs :
        (/\ ~MapHas(entries, normalizeKey(input.searchTerm))
         /\ \E i \in 1..Len(entries) :
                /\ entries[i][2].kind = input.kind
                /\ storeIdentifier(entries[i][2]) = storeIdentifier(input))
            => Len(upsert(store, input, clock).st.entries) <= Len(entries)

(* C13 as stated: no two stored entries of a repository have first names
   that are equal after trimming and lowercasing. *)
C13_CanonicalKeysNormalized ==
    \A k1, k2 \in DOMAIN repoEntries :
        k1 # k2 => normalizeKey(repoEntries[k1].names[1]) # normalizeKey(repoEntries[k2].names[1])

(* C14 as stated: for every stored entry E of a repository and every name n
   of E, getByName of any spelling of n (letter case, surrounding whitespace)
   returns E. *)
C14_LookupIgnoresCaseAndWhitespace ==
    \A k \in DOMAIN repoEntries :
        \A j \in 1..Len(repoEntries[k].names) :
            \A spelling \in Spellings(repoEntries[k].names[j]) :
                getByName(repo, spelling) = <<repoEntries[k]>>

\* parsed is a resource the repository does not hold: upsert adds a key
NewResource(rs, kind, parsed) ==
    resolveExistingKey(rs, kind, parsed.names[1], parsed) = <<>>

\* the stored keys that an upsert of parsed removes from rs
EvictedBy(rs, kind, parsed, max) ==
    DOMAIN rs.entries \ DOMAIN repoUpsertParsed(rs, kind, parsed, max).entries

(* C15 as stated: repository eviction is least-recently-used. An entry that
   getByName has just read, or that an in-place upsert has just rewritten,
   is more recent than every other stored entry, so the upsert of a new
   resource that follows does not evict it while another entry stays. *)
C15_RepositoryEvictsLeastRecentlyUsed ==
    sut \in RepoKinds =>
        /\ \A name \in RepoLookupNames : \A new \in ParsedInputs(sut) :
              \A read \in {getByName(repo, name)} :
                  (read # <<>> /\ NewResource(repo, sut, new)) =>
                      \A gone \in {EvictedBy(repo, sut, new, maxEntries)} :
                          read[1].names[1] \in gone => gone = DOMAIN repoEntries
        /\ \A rewritten \in ParsedInputs(sut) : \A new \in ParsedInputs(sut) :
              rewritten.names[1] \in DOMAIN repoEntries =>
                  \A rs \in {repoUpsertParsed(repo, sut, rewritten, maxEntries)} :
                      NewResource(rs, sut, new) =>
                          \A gone \in {EvictedBy(rs, sut, new, maxEntries)} :
                              rewritten.names[1] \in gone => gone = DOMAIN rs.entries

(* C16 as stated: a caller that changes an object it got from upsert, get
   or getSnapshot, or the input of an upsert or its aliases array, changes
   neither what a later get or getSnapshot returns nor the alias index. *)
C16_NoReferenceIntoState ==
    \A ref \in held, change \in CallerChanges :
        \A after \in {callerMutates(store, ref, change)} :
            /\ after.aliasIndex = aliasIndex
            /\ \A term \in LookupTerms :
                  get(after, term, clock).value = get(store, term, clock).value
            /\ \A limit \in 0..MaxLimit, kind \in SnapshotKinds :
                  getSnapshot(after, limit, kind, clock).value
                      = getSnapshot(store, limit, kind, clock).value

\* the stored entries of the kind asked for that are within their TTL at now
LiveOfKind(st, kind, now) ==
    {i \in 1..Len(st.entries) :
        /\ kind = "all" \/ st.entries[i][2].kind = kind
        /\ NotExpiredAt(st.entries[i][2], now)}

\* list holds records of stored live entries of recordKind, newest first,
\* without bookkeeping fields
SnapshotListOk(list, recordKind, asked, st, now) ==
    /\ \A n \in 1..Len(list) :
          /\ DOMAIN list[n] \cap {"kind", "lastAccessedAt", "updatedAt"} = {}
          /\ \E i \in LiveOfKind(st, asked, now) :
                /\ st.entries[i][1] = normalizeKey(list[n].searchTerm)
                /\ st.entries[i][2].kind = recordKind
                /\ stripBookkeeping(st.entries[i][2]) = list[n]
    /\ \A n, m \in 1..Len(list) :
          n < m => MapGet(st.entries, normalizeKey(list[n].searchTerm)).updatedAt
                       >= MapGet(st.entries, normalizeKey(list[m].searchTerm)).updatedAt

\* every live entry of the kind asked for that list omits is no newer than
\* every record of list
OmittedAreOlder(list, others, asked, st, now) ==
    \A i \in LiveOfKind(st, asked, now) :
        (\A n \in 1..Len(list) : normalizeKey(list[n].searchTerm) # st.entries[i][1]) /\
        (\A n \in 1..Len(others) : normalizeKey(others[n].searchTerm) # st.entries[i][1])
            => \A n \in 1..Len(list) :
                   st.entries[i][2].updatedAt
                       <= MapGet(st.entries, normalizeKey(list[n].searchTerm)).updatedAt

(* C17: getSnapshot(N, kind) with N >= 0 returns at most N records in all,
   each of a stored entry of the kind asked for that is within its TTL,
   without kind, lastAccessedAt and updatedAt; each list is in non-increasing
   updatedAt order, and every such entry that is omitted has an updatedAt no
   greater than that of every returned record. *)
C17_SnapshotBoundedNewestFirst ==
    \A limit \in 0..MaxLimit, kind \in SnapshotKinds :
        \A r \in {getSnapshot(store, limit, kind, clock).value} :
            /\ Len(r.libraries) + Len(r.repositories) <= limit
            /\ SnapshotListOk(r.libraries, "context7", kind, store, clock)
            /\ SnapshotListOk(r.repositories, "deepwiki", kind, store, clock)
            /\ OmittedAreOlder(r.libraries, r.repositories, kind, store, clock)
            /\ OmittedAreOlder(r.repositories, r.libraries, kind, store, clock)

\* two live entries of one kind with different updatedAt are stored, and a
\* snapshot of that kind with limit 1 returns one of them
C17_Witness ==
    /\ MaxLimit >= 1
    /\ \E i, j \in LiveOfKind(store, "context7", clock) :
          entries[i][2].updatedAt < entries[j][2].updatedAt
    /\ Len(getSnapshot(store, 1, "context7", clock).value.libraries) = 1

(* C18: a repository upsert whose input fails schema validation (no name,
   an empty name, an empty identifier, trustScore outside 0..10, a negative
   or non-integer snippetCount, a sourceType outside the variant's
   enumeration, a malformed resolvedAt) throws and leaves the entries, their
   order and size() as they were. *)
C18_InvalidInputLeavesRepository ==
    [][(sut \in RepoKinds) =>
          \A input \in InvalidInputs(sut) :
              RepoUpsert(input) =>
                  (/\ threw'
                   /\ repoEntries' = repoEntries
                   /\ order' = order
                   /\ size(RepoState(repoEntries', order')) = size(repo))]_vars

\* an upsert has just thrown on a repository that holds entries
C18_Witness ==
    /\ threw
    /\ size(repo) >= 1


\* the <system-reminder> markers in the text parts of a message
RECURSIVE countInText(_)
countInText(text) ==
    IF text = <<>> THEN 0
    ELSE (IF Head(text) = "<system-reminder>" THEN 1 ELSE 0) + countInText(Tail(text))

RECURSIVE countMarkers(_)
countMarkers(parts) ==
    IF parts = <<>> THEN 0
    ELSE (IF isTextMessagePart(Head(parts)) THEN countInText(Head(parts).text) ELSE 0)
         + countMarkers(Tail(parts))

\* the blocks that the injector has put into message i
InjectedBlocks(i) == countMarkers(messages[i].parts) - countMarkers(original[i].parts)

\* processInput once more, with any options, on the cache as it is now
AppliedAgain ==
    IF sut = "store"
    THEN { storeProcessInput(store, messages, limit, kind, clock).messages :
               limit \in 0..MaxLimit, kind \in SnapshotKinds }
    ELSE { repoProcessInput(repo, messages, optionsLimit) : optionsLimit \in 0..MaxLimit }

\* C19: however often processInput of either injector is applied to a message
\* list, and whatever happens to the cache in between, each user message holds
\* at most one injected <system-reminder> block, and processInput applied to
\* messages that were injected already returns them as they are.
C19_NoDoubleInjection ==
    /\ Len(messages) = Len(original)
    /\ \A i \in 1..Len(messages) :
           /\ InjectedBlocks(i) \in {0, 1}
           /\ messages[i].role # "user" => messages[i] = original[i]
    /\ messages # original => \A again \in AppliedAgain : again = messages

\* messages were injected, and the cache is not empty and no longer the one
\* whose state was injected
C19_Witness ==
    /\ sut = "store"
    /\ messages # original
    /\ \E i \in 1..Len(messages) : InjectedBlocks(i) = 1 /\ Len(messages[i].parts) > 1
    /\ \E r \in {storeProcessInput(store, original, MaxLimit, "all", clock)} :
           /\ r.messages # original
           /\ r.messages # messages


\* the positions in order of the stored entries that parsed matches, by
\* identifier or by a shared name
MatchingPositions(rs, kind, parsed) ==
    {i \in 1..Len(rs.order) :
        /\ rs.order[i] \in DOMAIN rs.entries
        /\ \/ targetIdentifier(kind, rs.entries[rs.order[i]]) = targetIdentifier(kind, parsed)
           \/ \E n \in 1..Len(parsed.names), m \in 1..Len(rs.entries[rs.order[i]].names) :
                  parsed.names[n] = rs.entries[rs.order[i]].names[m]}

\* the key that was inserted earliest among those at the positions
EarliestOf(rs, positions) ==
    rs.order[CHOOSE i \in positions : \A j \in positions : i <= j]

\* C20: when the first name of an upserted record is not a stored key and the
\* record matches several stored entries, upsert removes exactly one stored
\* entry, the matching one that was inserted earliest, and every other stored
\* entry, matching or not, stays as it was.
C20_EarliestMatchReplaced ==
    sut \in RepoKinds =>
        \A parsed \in ParsedInputs(sut) :
            \A positions \in {MatchingPositions(repo, sut, parsed)} :
                (parsed.names[1] \notin DOMAIN repoEntries /\ Cardinality(positions) >= 2) =>
                    \A rs \in {repoUpsertParsed(repo, sut, parsed, maxEntries)} :
                    \A earliest \in {EarliestOf(repo, positions)} :
                        /\ DOMAIN repoEntries \ DOMAIN rs.entries = {earliest}
                        /\ \A k \in DOMAIN repoEntries \ {earliest} :
                               rs.entries[k] = repoEntries[k]
                        /\ rs.entries[parsed.names[1]] = parsed

\* a record that matched two stored entries was upserted: the later match is
\* still stored, before the new entry
C20_Witness ==
    /\ sut \in RepoKinds
    /\ Len(order) = 2
    /\ order[1] \in DOMAIN repoEntries /\ order[2] \in DOMAIN repoEntries
    /\ Len(repoEntries[order[2]].names) = 3
    /\ targetIdentifier(sut, repoEntries[order[1]]) # targetIdentifier(sut, repoEntries[order[2]])
    /\ \E m \in 1..3 : repoEntries[order[2]].names[m] = order[1]

\* C21: when the normalized input is the key of a stored entry that has not
\* expired, get returns that entry, whatever the alias index holds for the
\* same text (in particular when it maps the text to a different entry).
C21_DirectKeyBeforeAlias ==
    sut = "store" =>
        \A pruned \in {pruneExpired(store, clock)} :
            \A term \in LookupTerms :
                MapHas(pruned.entries, normalizeKey(term)) =>
                    \A r \in {get(store, term, clock)} :
                        /\ r.value # <<>>
                        /\ normalizeKey(r.value[1].searchTerm) = normalizeKey(term)
                        /\ withoutBookkeeping(r.value[1])
                             = withoutBookkeeping(MapGet(pruned.entries, normalizeKey(term)))

\* get has returned an entry by its key while the alias index maps that key
\* to another stored entry: both are live, and the one that was got is the
\* only one whose lastAccessedAt moved
C21_Witness ==
    /\ sut = "store"
    /\ \E term \in LookupTerms :
          \E key \in {normalizeKey(term)} :
              /\ MapHas(entries, key)
              /\ key \in DOMAIN aliasIndex
              /\ aliasIndex[key] # key
              /\ MapHas(entries, aliasIndex[key])
              /\ NotExpiredAt(MapGet(entries, key), clock)
              /\ NotExpiredAt(MapGet(entries, aliasIndex[key]), clock)
              /\ MapGet(entries, key).lastAccessedAt > MapGet(entries, key).updatedAt
              /\ MapGet(entries, aliasIndex[key]).lastAccessedAt
                   = MapGet(entries, aliasIndex[key]).updatedAt

\* C22: an upsert that does not insert evicts nothing. In a repository, when
\* the first name of the record is a stored key, the stored keys and order are
\* after the upsert what they were before, and every other entry is unchanged.
\* In the store, when the key of the record is stored, the keys after the
\* upsert are those that pruneExpired leaves, and the key of the record.
C22_UpdateEvictsNothing ==
    /\ sut \in RepoKinds =>
          \A parsed \in ParsedInputs(sut) :
              parsed.names[1] \in DOMAIN repoEntries =>
                  \A rs \in {repoUpsertParsed(repo, sut, parsed, maxEntries)} :
                      /\ DOMAIN rs.entries = DOMAIN repoEntries
                      /\ rs.order = order
                      /\ \A k \in DOMAIN repoEntries \ {parsed.names[1]} :
                             rs.entries[k] = repoEntries[k]
    /\ sut = "store" =>
          \A input \in CacheEntryInputs :
              MapHas(entries, normalizeKey(input.searchTerm)) =>
                  \A r \in {upsert(store, input, clock)} :
                      MapKeys(r.st.entries)
                        = MapKeys(pruneExpired(store, clock).entries)
                            \cup {normalizeKey(input.searchTerm)}

\* a full repository in which the record under the later key was updated in
\* place: it now shares a name with the entry before it, which an insert of
\* that record would have removed
C22_Witness ==
    /\ sut \in RepoKinds
    /\ Len(order) = 2 /\ maxEntries = 2
    /\ order[1] \in DOMAIN repoEntries /\ order[2] \in DOMAIN repoEntries
    /\ Len(repoEntries[order[1]].names) = 3
    /\ Len(repoEntries[order[2]].names) = 2
    /\ names_intersect(repoEntries[order[1]], repoEntries[order[2]])
    /\ targetIdentifier(sut, repoEntries[order[1]]) # targetIdentifier(sut, repoEntries[order[2]])

\* the entries of the list
EntriesOf(list) == {list[i] : i \in 1..Len(list)}

\* the payloads over the entries of rs that hold at most limit entries, the
\* one upserted last among them
PayloadsWithNewest(rs, limit, newest) ==
    {payload \in UNION {[1..n -> EntriesOf(getAll(rs))] : n \in 1..Min(limit, size(rs))} :
        newest \in EntriesOf(payload)}

\* the text that the repository-backed injector puts before "hi"
InjectedInto(rs, optionsLimit) ==
    repoProcessInput(rs, << [role |-> "user",
                             parts |-> << [type |-> "text", text |-> <<"hi">>] >>] >>,
                     optionsLimit)[1].parts[1].text

(* C23 as stated: the payload of the repository-backed injector holds at most
   limit entries and omits no entry upserted more recently than one it holds.
   The record of the latest upsert is more recent than all others, so after
   any upsert the payload of an injector with limit >= 1 holds that record. *)
C23_InjectsMostRecentlyUpserted ==
    sut \in RepoKinds =>
        \A parsed \in ParsedInputs(sut) :
            \A rs \in {repoUpsertParsed(repo, sut, parsed, maxEntries)} :
                \A optionsLimit \in 1..MaxLimit :
                    InjectedInto(rs, optionsLimit)
                        \in {prepend(repoReminderBlock(payload), <<"hi">>) :
                                payload \in PayloadsWithNewest(rs, optionsLimit, parsed)}

\* the callback of call i has started
CallbackStarted(i) == pc[i] \in {"inCallback", "awaitCallback", "done"}

\* C24: the callback of a call queued behind call j does not start before j
\* has released; and once the callback of j awaits a runExclusive call that it
\* issued itself, j stays in its callback for ever, the callback of the inner
\* call never starts, and neither does the callback of any call issued later.
C24_NonReentrant ==
    /\ \A i \in Calls :
          (CallbackStarted(i) /\ previous[i] # 0) => previous[i] \in released
    /\ \A j \in Calls :
          call[j].op = "awaitsInner" =>
              /\ pc[j] = "inCallback"
              /\ j \notin released
              /\ \A k \in Calls :
                    k >= call[j].inner =>
                        /\ ~CallbackStarted(k)
                        /\ outcome[k] = "none"

\* an outer callback awaits its inner call, a third caller has called since,
\* and the engine has nothing left to run
C24_Witness ==
    /\ sut = "mutex"
    /\ microtasks = <<>>
    /\ \E j \in Calls :
          /\ call[j].op = "awaitsInner"
          /\ pc[call[j].inner] = "awaitPrevious"
          /\ previous[call[j].inner] = j
          /\ \E k \in Calls : k > call[j].inner /\ pc[k] = "awaitPrevious"

\* call i has called runExclusive and its callback has not started
Pending(i) == pc[i] \in {"called", "awaitPrevious", "resuming"}

\* C25: a runExclusive promise rejects only when its own callback threw or
\* rejected; a call whose callback failed releases the Mutex all the same; and
\* every call that waits for the Mutex eventually starts its callback, given
\* that the callbacks before it settle.
C25_ReleasedOnFailureNoStarvation ==
    /\ [](\A i \in Calls :
             outcome[i] = "rejected" => call[i].op \in {"syncThrow", "asyncReject"})
    /\ \A i \in Calls : (outcome[i] = "rejected") ~> (i \in released)
    /\ \A i \in Calls : Pending(i) ~> CallbackStarted(i)

\* a callback failed, and the callback of a call that waited behind it has run
C25_Witness ==
    /\ sut = "mutex"
    /\ \E j \in Calls, k \in Calls :
          /\ outcome[j] = "rejected"
          /\ previous[k] = j
          /\ outcome[k] = "fulfilled"
          /\ pc[k] = "done"

\* after differs from before at most in the lastAccessedAt of the entry under key
OnlyTouched(before, after, key) ==
    /\ after.aliasIndex = before.aliasIndex
    /\ Len(after.entries) = Len(before.entries)
    /\ \A i \in 1..Len(before.entries) :
          /\ after.entries[i][1] = before.entries[i][1]
          /\ after.entries[i][1] # key => after.entries[i][2] = before.entries[i][2]
          /\ after.entries[i][1] = key =>
                 after.entries[i][2]
                   = [before.entries[i][2] EXCEPT !.lastAccessedAt = after.entries[i][2].lastAccessedAt]

\* C26: a read leaves the store as pruneExpired leaves it, except that a get
\* that returns an entry sets the lastAccessedAt of that entry: a get that
\* returns undefined and every getSnapshot change nothing else.
C26_ReadsTouchOnlyLastAccessedAt ==
    sut = "store" =>
        \A pruned \in {pruneExpired(store, clock)} :
            /\ \A term \in LookupTerms :
                  \A r \in {get(store, term, clock)} :
                      IF r.value = <<>> THEN r.st = pruned
                      ELSE OnlyTouched(pruned, r.st, normalizeKey(r.value[1].searchTerm))
            /\ \A limit \in 0..MaxLimit, kind \in SnapshotKinds :
                  getSnapshot(store, limit, kind, clock).st = pruned

\* a get has returned one of two stored entries that have aliases: its
\* lastAccessedAt is the time of the get, later than its updatedAt, and the
\* other entry was last accessed before
C26_Witness ==
    /\ sut = "store"
    /\ Len(entries) = 2
    /\ DOMAIN aliasIndex # {}
    /\ \E i, j \in 1..2 :
          /\ entries[i][2].lastAccessedAt = clock
          /\ entries[i][2].updatedAt < clock
          /\ entries[j][2].lastAccessedAt < clock

\* the store after the callbacks of calls i..k have run, from st
RECURSIVE ReplayTo(_, _, _)
ReplayTo(i, k, st) ==
    IF i > k THEN st
    ELSE ReplayTo(i + 1, k, applyCall(st, call[i], results[i][1].now).st)

\* the entries the store held right after the upsert that was call u
SizeAfterUpsert(u) == Len(ReplayTo(1, u, StoreState(<<>>, NoAliases)).entries)

(* C27 as stated: the totalCached that an update call returns is the number of
   entries the store held right after that call's own upsert. *)
C27_TotalCachedIsSizeAfterUpsert ==
    \A g \in Calls :
        (call[g].op = "getSnapshot" /\ results[g] # <<>>) =>
            totalCached(results[g][1].value) = SizeAfterUpsert(call[g].update)

\* the records in the lists of a snapshot whose searchTerm normalizes to key
SnapshotRecordsOf(list, key) ==
    {i \in 1..Len(list) : normalizeKey(list[i].searchTerm) = key}

\* C28: the store has one key space for both kinds. No two stored entries
\* have the same normalized searchTerm, whatever their kinds; and after the
\* upsert of a record, the entry under its key is that record: get returns
\* it, and a snapshot of everything lists that term once, under the kind of
\* the record, so a record of the other kind under that term is gone.
C28_OneKeySpace ==
    sut = "store" =>
        /\ \A i, j \in 1..Len(entries) :
              normalizeKey(entries[i][2].searchTerm) = normalizeKey(entries[j][2].searchTerm)
                  => i = j
        /\ \A input \in CrossKindInputs :
              \A key \in {normalizeKey(input.searchTerm)} :
              \A st \in {upsert(store, input, clock).st} :
                  /\ MapHas(st.entries, key)
                  /\ MapGet(st.entries, key).kind = input.kind
                  /\ \A got \in {get(st, input.searchTerm, clock).value} :
                        got # <<>> /\ got[1].kind = input.kind
                  /\ \A snapshot \in {getSnapshot(st, CACHE_MAX_ENTRIES, "all", clock).value} :
                        IF input.kind = "context7"
                        THEN /\ Cardinality(SnapshotRecordsOf(snapshot.libraries, key)) = 1
                             /\ SnapshotRecordsOf(snapshot.repositories, key) = {}
                        ELSE /\ Cardinality(SnapshotRecordsOf(snapshot.repositories, key)) = 1
                             /\ SnapshotRecordsOf(snapshot.libraries, key) = {}

\* both keys hold a record of the kind that was upserted second: each has a
\* record of the other kind among the inputs, and the first key was written
\* again after the second was inserted
C28_Witness ==
    /\ sut = "store"
    /\ Len(entries) = 2
    /\ entries[1][2].kind = "deepwiki" /\ normalizeKey(entries[1][2].searchTerm) = <<"a">>
    /\ entries[2][2].kind = "context7" /\ normalizeKey(entries[2][2].searchTerm) = <<"b">>
    /\ entries[1][2].updatedAt > entries[2][2].updatedAt

\* the array as the element schema leaves it: what the transform is given
TransformInput == [i \in 1..Len(repositoryCache) |-> parseCacheEntry(repositoryCache[i])]

\* the positions in list of the last occurrence of each repository
LastOccurrences(list) ==
    {i \in 1..Len(list) :
        \A j \in (i + 1)..Len(list) : list[j].repository # list[i].repository}

\* of those, the REPOSITORY_CACHE_LIMIT that come latest
LatestKept(list) ==
    {i \in LastOccurrences(list) :
        Cardinality({j \in LastOccurrences(list) : j > i}) < REPOSITORY_CACHE_LIMIT}

\* C29: the parsed repositoryCache has no two entries with the same
\* repository and at most REPOSITORY_CACHE_LIMIT entries; its entries are the
\* last occurrences of their repositories in the input, namely those of the
\* repositories whose last occurrences come latest, in the order of the input.
C29_DedupeKeepsLatest ==
    parsedCache # <<>> =>
        \A out \in {parsedCache[1]} :
        \A kept \in {LatestKept(TransformInput)} :
            /\ Len(out) <= REPOSITORY_CACHE_LIMIT
            /\ \A x, y \in 1..Len(out) : out[x].repository = out[y].repository => x = y
            /\ Len(out) = Cardinality(kept)
            /\ \A i \in kept :
                  out[Cardinality({j \in kept : j <= i})] = TransformInput[i]

\* a parsed array that held one repository twice, once with surrounding
\* whitespace, and more repositories than are kept
C29_Witness ==
    /\ sut = "memory"
    /\ parsedCache # <<>>
    /\ Len(parsedCache[1]) = REPOSITORY_CACHE_LIMIT
    /\ Cardinality(LastOccurrences(TransformInput)) > REPOSITORY_CACHE_LIMIT
    /\ Cardinality(LastOccurrences(TransformInput)) < Len(repositoryCache)
    /\ \E i, j \in 1..Len(repositoryCache) :
          /\ i < j
          /\ repositoryCache[i].repository # repositoryCache[j].repository
          /\ TransformInput[i].repository = TransformInput[j].repository
          /\ TransformInput[i].searchTerm # TransformInput[j].searchTerm
          /\ \E k \in 1..Len(parsedCache[1]) : parsedCache[1][k] = TransformInput[j]

\* C30: in a repository, order lists the keys of entries, each exactly once:
\* every key in order has an entry, every entry has its key in order, and no
\* key is listed twice, so order is as long as the repository is large.
C30_OrderListsEntries ==
    sut \in RepoKinds =>
        /\ \A i \in 1..Len(order) : order[i] \in DOMAIN repoEntries
        /\ \A k \in DOMAIN repoEntries : \E i \in 1..Len(order) : order[i] = k
        /\ \A i, j \in 1..Len(order) : order[i] = order[j] => i = j
        /\ Len(order) = size(repo)

\* a full repository of the largest capacity, after a validation error, whose
\* entries carry further names that later upserts can match
C30_Witness ==
    /\ sut \in RepoKinds
    /\ maxEntries = MaxRepoEntries
    /\ Len(order) = maxEntries
    /\ threw
    /\ \A k \in DOMAIN repoEntries : Len(repoEntries[k].names) >= 2

====
